---------------------------- MODULE Spec2Model ----------------------------
(***************************************************************************)
(* A model of the o5m stream decoder of pmezard/osm (src/parser.go): the   *)
(* varint readers, the string back-reference table, the buffered base      *)
(* reader and the O5MReader record iterator; and of its polygon assembly:  *)
(* UnionFind, the rings made of lines (src/unnamed/part_000) and the       *)
(* inclusion trees of rings (the listings of src/README.md).               *)
(*                                                                         *)
(* Conventions                                                             *)
(*   - a byte is an integer 0..255, a string is a sequence of bytes;       *)
(*   - a uint64 / int64 is the set of positions of its 1 bits (a subset of *)
(*     0..WordBits-1, two's complement for int64), so that shifts, ors and *)
(*     wrap-around keep the width of the Go types;                         *)
(*   - a Go error is a string, "nil" when there is none.                   *)
(***************************************************************************)
EXTENDS Integers, Sequences, FiniteSets, TLC

VARIABLES
    vin,      \* varint harness: the value handed to the encoder
    vbytes,   \* varint harness: its encoding
    vout,     \* varint harness: what readSigned/readUnsigned returned
    st,       \* string table harness: the stringsTable under test
    pushed,   \* string table harness: the pairs stored so far, oldest first
    tcall,    \* string table harness: the last call and its result
    rd,       \* decoder: the O5MReader (with its baseReader)
    ret,      \* decoder: what the last call of Next() returned
    calls,    \* decoder: one entry per call of Next(), in order
    live,     \* decoder: the checkpoints reported so far, one per Reset read
    aux,      \* decoder: the caller's bookkeeping
    uf,       \* union-find harness: the UnionFind under test
    comp,     \* union-find harness: the sets the merges made so far
    ucall,    \* union-find harness: the last call and its result
    gin,      \* geometry harness: the input of the function under test
    gout      \* geometry harness: what the function returned

vars == <<vin, vbytes, vout, st, pushed, tcall, rd, ret, calls, live, aux,
          uf, comp, ucall, gin, gout>>

varintVars == <<vin, vbytes, vout>>
tableVars == <<st, pushed, tcall>>
decoderVars == <<rd, ret, calls, live, aux>>
unionVars == <<uf, comp, ucall>>
geoVars == <<gin, gout>>

\* the variables of the other harnesses
exceptVarint == <<tableVars, decoderVars, unionVars, geoVars>>
exceptTable == <<varintVars, decoderVars, unionVars, geoVars>>
exceptDecoder == <<varintVars, tableVars, unionVars, geoVars>>
exceptUnion == <<varintVars, tableVars, decoderVars, geoVars>>
exceptGeo == <<varintVars, tableVars, decoderVars, unionVars>>

-----------------------------------------------------------------------------
(* Bytes and 64-bit words                                                  *)

WordBits == 64

Pow2(k) == 2^k

Min(S) == CHOOSE x \in S : \A y \in S : x <= y

Max(S) == CHOOSE x \in S : \A y \in S : x >= y

\* the 1 bits of the integer v, 0 <= v < 2^31
BitsOf(v) == {i \in 0..30 : (v \div Pow2(i)) % 2 = 1}

RECURSIVE SumPow2(_)
SumPow2(S) == IF S = {} THEN 0 ELSE LET i == Max(S) IN Pow2(i) + SumPow2(S \ {i})

\* uint64(v) << shift: bits shifted past the width are lost
Shl(w, shift) == {i + shift : i \in w} \cap (0..(WordBits - 1))

\* uint64(v) >> shift
Shr(w, shift) == {i - shift : i \in {j \in w : j >= shift}}

\* n + 1 on a 64-bit word, wrapping at 2^64
Inc(w) ==
    LET zeros == (0..(WordBits - 1)) \ w
    IN  IF zeros = {} THEN {}
        ELSE LET z == Min(zeros) IN {i \in w : i > z} \cup {z}

\* ^n: the bitwise complement of a 64-bit word
Not(w) == (0..(WordBits - 1)) \ w

\* -n on int64, two's complement, wrapping
Neg(w) == Inc(Not(w))

IsNegative(w) == (WordBits - 1) \in w

\* int(w) when the value fits the model's integers; TLC stops on a larger one
ToInt(w) == IF IsNegative(w) THEN 0 - SumPow2(Neg(w)) ELSE SumPow2(w)

-----------------------------------------------------------------------------
(* readSigned, readUnsigned over a byte source (bufio.Reader): data is the  *)
(* whole input, pos the number of bytes already taken from it.             *)

\* bufio.Reader.ReadByte at the end of the input returns io.EOF
AtEOF(data, pos) == pos >= Len(data)

RECURSIVE readUnsignedLoop(_, _, _, _, _)
readUnsignedLoop(data, pos, n, shift, read) ==
    IF AtEOF(data, pos)
    THEN [n |-> {}, read |-> read + 1, err |-> "EOF", pos |-> pos]
    ELSE LET b  == data[pos + 1]
             v  == b % 128
             n2 == n \cup Shl(BitsOf(v), shift)
         IN  IF b \div 128 = 0
             THEN [n |-> n2, read |-> read + 1, err |-> "nil", pos |-> pos + 1]
             ELSE readUnsignedLoop(data, pos + 1, n2, shift + 7, read + 1)

readUnsigned(data, pos) == readUnsignedLoop(data, pos, {}, 0, 0)

\* the shift after the first byte of a signed varint, which carries 6 value bits
FirstShiftSeven == 6 + 1

FirstShift == 6

RECURSIVE readSignedLoop(_, _, _, _, _, _)
readSignedLoop(data, pos, n, shift, sign, read) ==
    IF AtEOF(data, pos)
    THEN [n |-> {}, read |-> read + 1, err |-> "EOF", pos |-> pos]
    ELSE LET b     == data[pos + 1]
             v     == b % 128
             first == shift = 0
             sign2 == IF first /\ v % 2 # 0 THEN -1 ELSE sign
             n2    == IF first THEN n \cup Shr(BitsOf(v), 1)
                      ELSE n \cup Shl(BitsOf(v), shift)
             sh2   == IF first THEN FirstShift ELSE shift + 7
         IN  IF b \div 128 = 0
             THEN [n    |-> IF sign2 < 0 THEN Neg(Inc(n2)) ELSE n2,
                   read |-> read + 1, err |-> "nil", pos |-> pos + 1]
             ELSE readSignedLoop(data, pos + 1, n2, sh2, sign2, read + 1)

readSigned(data, pos) == readSignedLoop(data, pos, {}, 0, 1, 0)

-----------------------------------------------------------------------------
(* stringsTable: a ring of TableSize pairs. entries holds the slots written *)
(* so far; a slot never written reads as the zero pair of make().           *)

TableSize == 15000

MaxPairLen == 250

EmptyPair == [Key |-> <<>>, Value |-> <<>>]

\* the pair a table that is already in use was filled with (see filled below)
FillerPair == [Key |-> <<102>>, Value |-> <<>>]

\* entries: the slots written since the state the model starts from; filled: the
\* number of slots, from slot 0 on, that held FillerPair in that state (0 for a
\* new table): 15000 slots are not spelled out one by one.
NewStringsTable == [entries |-> <<>>, latest |-> 0, filled |-> 0]

\* st.entries[i]
EntryAt(t, i) ==
    IF i \in DOMAIN t.entries THEN t.entries[i]
    ELSE IF i < t.filled THEN FillerPair
    ELSE EmptyPair

PushUnchecked(t, k, v) ==
    [t EXCEPT !.entries = (t.latest :> [Key |-> k, Value |-> v]) @@ @,
              !.latest = (t.latest + 1) % TableSize]

Push(t, k, v) ==
    IF Len(k) + Len(v) > MaxPairLen THEN t
    ELSE [t EXCEPT !.entries = (t.latest :> [Key |-> k, Value |-> v]) @@ @,
                   !.latest = (t.latest + 1) % TableSize]

GetMirrored(t, n) ==
    IF n < 0 \/ n > TableSize
    THEN [Key |-> <<>>, Value |-> <<>>, err |-> "out of bounds"]
    ELSE LET m == t.latest - n
             i == IF m < 0 THEN 0 - m ELSE m
             p == EntryAt(t, i)
         IN  [Key |-> p.Key, Value |-> p.Value, err |-> "nil"]

Get(t, n) ==
    IF n < 0 \/ n > TableSize
    THEN [Key |-> <<>>, Value |-> <<>>, err |-> "out of bounds"]
    ELSE LET m == t.latest - n
             i == IF m < 0 THEN TableSize + m ELSE m
             p == EntryAt(t, i)
         IN  [Key |-> p.Key, Value |-> p.Value, err |-> "nil"]

-----------------------------------------------------------------------------
(* baseReader: the byte source with its read counter, sticky error and     *)
(* string table. These are fields of the reader record r:                  *)
(*   data, pos   the input and the position of the bufio.Reader in it      *)
(*   read        baseReader.read, the counter Offset() returns             *)
(*   berr        baseReader.err                                            *)
(*   strings     baseReader.strings                                        *)
(* Each operation returns the reader after the call and the value returned.*)
(* A function of several statements is written as a chain of operators,    *)
(* each taking what the statements before it computed.                     *)

ZeroWord == {}

Bytes(n, b) == [i \in 1..n |-> b]

baseReader_Reset(r) == [r EXCEPT !.strings = NewStringsTable]

Offset(r) == r.read

ReadByte(r) ==
    IF r.berr # "nil" THEN [r |-> r, v |-> 0]
    ELSE IF AtEOF(r.data, r.pos)
    THEN [r |-> [r EXCEPT !.berr = "EOF", !.read = @ + 1], v |-> 0]
    ELSE [r |-> [r EXCEPT !.pos = @ + 1, !.read = @ + 1], v |-> r.data[r.pos + 1]]

\* io.ReadFull into a zeroed buffer of n bytes, avail bytes being left
ReadFull(r, n, avail) ==
    IF avail >= n
    THEN [r |-> [r EXCEPT !.pos = @ + n, !.read = @ + n],
          v |-> SubSeq(r.data, r.pos + 1, r.pos + n)]
    ELSE [r |-> [r EXCEPT !.pos = Len(r.data), !.read = @ + avail,
                          !.berr = IF avail = 0 THEN "EOF" ELSE "unexpected EOF"],
          v |-> SubSeq(r.data, r.pos + 1, Len(r.data)) \o Bytes(n - avail, 0)]

Read(r, n) ==
    IF r.berr # "nil" THEN [r |-> r, v |-> Bytes(n, 0)]
    ELSE ReadFull(r, n, Len(r.data) - r.pos)

\* r.read += read; r.err = err; return n
Counted(r, res) ==
    [r |-> [r EXCEPT !.pos = res.pos, !.read = @ + res.read, !.berr = res.err],
     v |-> res.n]

ReadSigned(r) ==
    IF r.berr # "nil" THEN [r |-> r, v |-> ZeroWord]
    ELSE Counted(r, readSigned(r.data, r.pos))

ReadUnsigned(r) ==
    IF r.berr # "nil" THEN [r |-> r, v |-> ZeroWord]
    ELSE Counted(r, readUnsigned(r.data, r.pos))

\* bufio.Reader.ReadSlice(0) from pos: the index of the delimiter in data, or 0
\* when the input ends before one (inputs are shorter than the bufio buffer)
DelimAt(data, pos) ==
    LET Z == {i \in (pos + 1)..Len(data) : data[i] = 0}
    IN  IF Z = {} THEN 0 ELSE Min(Z)

NoStrings(r) == [r |-> r, k |-> <<>>, v |-> <<>>]

\* the second ReadSlice, its delimiter at d2, and the Push
readStrings_value(r, k, d2) ==
    IF d2 = 0
    THEN [r |-> [r EXCEPT !.pos = Len(r.data), !.berr = "EOF"], k |-> k, v |-> <<>>]
    ELSE [r |-> [r EXCEPT !.pos = d2, !.read = @ + (d2 - r.pos),
                          !.strings = Push(@, k, SubSeq(r.data, r.pos + 1, d2 - 1))],
          k |-> k, v |-> SubSeq(r.data, r.pos + 1, d2 - 1)]

\* after the first ReadSlice gave k, the reader r standing after its delimiter
readStrings_key(r, single, k) ==
    IF single THEN [r |-> [r EXCEPT !.strings = Push(@, k, <<>>)], k |-> k, v |-> <<>>]
    ELSE readStrings_value(r, k, DelimAt(r.data, r.pos))

\* b == 0: the first ReadSlice, from p1 (after the zero byte) to its delimiter at d1
readStrings_literal(r, single, p1, d1) ==
    IF d1 = 0
    THEN NoStrings([r EXCEPT !.pos = Len(r.data), !.read = @ + 1, !.berr = "EOF"])
    ELSE readStrings_key([r EXCEPT !.pos = d1, !.read = @ + 1 + (d1 - p1)], single,
                         SubSeq(r.data, p1 + 1, d1 - 1))

\* b != 0: the pair found in the table by Get
readStrings_found(r, g) ==
    IF g.err # "nil" THEN NoStrings([r EXCEPT !.berr = g.err])
    ELSE [r |-> r, k |-> g.Key, v |-> g.Value]

\* b != 0: the index read by ReadUnsigned
readStrings_reference(u) ==
    IF u.r.berr # "nil" THEN NoStrings(u.r)
    ELSE readStrings_found(u.r, Get(u.r.strings, ToInt(u.v)))

readStrings(r, single) ==
    IF r.berr # "nil" THEN NoStrings(r)
    ELSE IF AtEOF(r.data, r.pos) THEN NoStrings([r EXCEPT !.berr = "EOF"])
    ELSE IF r.data[r.pos + 1] = 0
    THEN readStrings_literal(r, single, r.pos + 1, DelimAt(r.data, r.pos + 1))
    ELSE readStrings_reference(ReadUnsigned(r))

FirstOf(s) == [r |-> s.r, v |-> s.k]

ReadString(r) == FirstOf(readStrings(r, TRUE))

ReadStrings(r) == readStrings(r, FALSE)

-----------------------------------------------------------------------------
(* The record parsers. Every parser returns the reader after the call, the *)
(* record it updated in place (also when it fails) and its error.          *)

HeaderMagic == <<111, 53, 109, 50>>     \* "o5m2"

parseHeader_magic(buf) ==
    IF buf.r.berr # "nil" THEN [r |-> buf.r, err |-> buf.r.berr]
    ELSE IF buf.v # HeaderMagic THEN [r |-> buf.r, err |-> "unexpected o5m type"]
    ELSE [r |-> buf.r, err |-> "nil"]

parseHeader_length(l) ==
    IF l.v # BitsOf(4) THEN [r |-> l.r, err |-> "unexpected header section length"]
    ELSE parseHeader_magic(Read(l.r, 4))

parseHeader_section(kd) ==
    IF kd.r.berr # "nil" \/ kd.v # 224
    THEN [r |-> kd.r, err |-> "unexpected header section"]
    ELSE parseHeader_length(ReadUnsigned(kd.r))

parseHeader_byte(h) ==
    IF h.r.berr # "nil" \/ h.v # 255
    THEN [r |-> h.r, err |-> "unexpected header byte"]
    ELSE parseHeader_section(ReadByte(h.r))

parseHeader(r) == parseHeader_byte(ReadByte(r))

ZeroMeta == [Version |-> 0, Timestamp |-> 0, Changeset |-> 0, Uid |-> <<>>, Author |-> <<>>]

ZeroNode == [Id |-> 0, Meta |-> ZeroMeta, Lon |-> 0, Lat |-> 0, Tags |-> <<>>]

ZeroWay == [Id |-> 0, Meta |-> ZeroMeta, Nodes |-> <<>>, Tags |-> <<>>]

ZeroRelation == [Id |-> 0, Meta |-> ZeroMeta, Refs |-> <<>>, Tags |-> <<>>]

ZeroRefIds == <<0, 0, 0>>

parseMeta_user(ua, m) == [r |-> ua.r, meta |-> [m EXCEPT !.Uid = ua.k, !.Author = ua.v]]

parseMeta_changeset(cs, m) ==
    parseMeta_user(ReadStrings(cs.r), [m EXCEPT !.Changeset = @ + ToInt(cs.v)])

parseMeta_timestamp_clearing(r, m) ==
    IF m.Timestamp # 0 THEN parseMeta_changeset(ReadSigned(r), m)
    ELSE [r |-> r, meta |-> [m EXCEPT !.Changeset = 0, !.Uid = <<>>, !.Author = <<>>]]

\* m is prev with the Timestamp already moved
parseMeta_timestamp(r, m) ==
    IF m.Timestamp # 0 THEN parseMeta_changeset(ReadSigned(r), m)
    ELSE [r |-> r, meta |-> m]

parseMeta_delta(ts, m) ==
    parseMeta_timestamp(ts.r, [m EXCEPT !.Timestamp = @ + ToInt(ts.v)])

parseMeta_version(vd, prev) ==
    IF vd.v # ZeroWord
    THEN parseMeta_delta(ReadSigned(vd.r), [prev EXCEPT !.Version = ToInt(vd.v)])
    ELSE [r |-> vd.r, meta |-> ZeroMeta]

parseMeta(r, prev) == parseMeta_version(ReadUnsigned(r), prev)

RECURSIVE parseTags(_, _, _)
parseTags_pair(start, kv, length, tags) ==
    IF kv.r.berr # "nil"
    THEN [r |-> kv.r, tags |-> <<>>, err |-> "could not parse tag"]
    ELSE parseTags(kv.r, length - (Offset(kv.r) - start),
                   Append(tags, [Key |-> kv.k, Value |-> kv.v]))

parseTags(r, length, tags) ==
    IF length > 0 THEN parseTags_pair(Offset(r), ReadStrings(r), length, tags)
    ELSE IF length < 0 THEN [r |-> r, tags |-> <<>>, err |-> "overread"]
    ELSE [r |-> r, tags |-> tags, err |-> "nil"]

\* n is prev with Tags cut to [:0] and the fields read so far
parseNode_end(n, tg) ==
    IF tg.err # "nil" THEN [r |-> tg.r, node |-> n, err |-> tg.err]
    ELSE [r |-> tg.r, node |-> [n EXCEPT !.Tags = tg.tags], err |-> tg.r.berr]

parseNode_tags(offset, length, n, lat) ==
    parseNode_end([n EXCEPT !.Lat = @ + ToInt(lat.v)],
                  parseTags(lat.r, length - (Offset(lat.r) - offset), <<>>))

parseNode_lat_absolute(offset, length, n, lon) ==
    parseNode_tags(offset, length, [n EXCEPT !.Lon = ToInt(lon.v)], ReadSigned(lon.r))

parseNode_lat(offset, length, n, lon) ==
    parseNode_tags(offset, length, [n EXCEPT !.Lon = @ + ToInt(lon.v)], ReadSigned(lon.r))

parseNode_lon(offset, length, n, mt) ==
    parseNode_lat(offset, length, [n EXCEPT !.Meta = mt.meta], ReadSigned(mt.r))

parseNode_meta(offset, length, prev, id) ==
    parseNode_lon(offset, length,
                  [prev EXCEPT !.Id = @ + ToInt(id.v), !.Tags = <<>>],
                  parseMeta(id.r, prev.Meta))

parseNode(r, length, prev) == parseNode_meta(Offset(r), length, prev, ReadSigned(r))

RECURSIVE parseWay_nodes(_, _, _, _)
parseWay_node(start, d, nodesLength, nodes, nodeId) ==
    IF d.r.berr # "nil"
    THEN [r |-> d.r, nodes |-> nodes, nodeId |-> nodeId,
          err |-> "could not parse node id"]
    ELSE parseWay_nodes(d.r, nodesLength - (Offset(d.r) - start),
                        Append(nodes, nodeId + ToInt(d.v)), nodeId + ToInt(d.v))

\* the loop over the node references
parseWay_nodes(r, nodesLength, nodes, nodeId) ==
    IF nodesLength > 0 THEN parseWay_node(Offset(r), ReadSigned(r), nodesLength, nodes, nodeId)
    ELSE IF nodesLength < 0
    THEN [r |-> r, nodes |-> nodes, nodeId |-> nodeId, err |-> "overread"]
    ELSE [r |-> r, nodes |-> nodes, nodeId |-> nodeId, err |-> "nil"]

parseWay_end(w, nodeId, tg) ==
    IF tg.err # "nil" THEN [r |-> tg.r, way |-> w, nodeId |-> 0, err |-> tg.err]
    ELSE [r |-> tg.r, way |-> [w EXCEPT !.Tags = tg.tags], nodeId |-> nodeId,
          err |-> tg.r.berr]

parseWay_tags(offset, length, w, nd) ==
    IF nd.err # "nil"
    THEN [r |-> nd.r, way |-> [w EXCEPT !.Nodes = nd.nodes], nodeId |-> 0, err |-> nd.err]
    ELSE parseWay_end([w EXCEPT !.Nodes = nd.nodes], nd.nodeId,
                      parseTags(nd.r, length - (Offset(nd.r) - offset), <<>>))

parseWay_length(offset, length, w, nodeId, nl) ==
    parseWay_tags(offset, length, w, parseWay_nodes(nl.r, ToInt(nl.v), <<>>, nodeId))

parseWay_nodesLength(offset, length, w, nodeId, mt) ==
    parseWay_length(offset, length, [w EXCEPT !.Meta = mt.meta], nodeId, ReadUnsigned(mt.r))

parseWay_meta(offset, length, prev, nodeId, id) ==
    parseWay_nodesLength(offset, length,
                         [prev EXCEPT !.Id = @ + ToInt(id.v), !.Nodes = <<>>, !.Tags = <<>>],
                         nodeId, parseMeta(id.r, prev.Meta))

parseWay(r, length, prev, nodeId) ==
    parseWay_meta(Offset(r), length, prev, nodeId, ReadSigned(r))

RefType_oneCounter(s) == IF s[1] \in {48, 49, 50} THEN 1 ELSE -1

\* the reference type selected by the first character of s: "0", "1", "2"
RefType(s) ==
    IF s[1] = 48 THEN 0 ELSE IF s[1] = 49 THEN 1 ELSE IF s[1] = 50 THEN 2 ELSE -1

RECURSIVE parseRelation_refs(_, _, _, _)
\* refIds[typ] += deltaId and the append, ids being refIds after the addition
parseRelation_append(start, r, refLength, refs, ids, typ, role) ==
    parseRelation_refs(r, refLength - (Offset(r) - start),
                       Append(refs, [Id |-> ids[typ + 1], Type |-> typ, Role |-> role]),
                       ids)

parseRelation_ref(start, d, s, refLength, refs, refIds) ==
    IF Len(s.v) < 1
    THEN [r |-> s.r, refs |-> refs, refIds |-> refIds, err |-> "invalid ref string"]
    ELSE IF s.r.berr # "nil"
    THEN [r |-> s.r, refs |-> refs, refIds |-> refIds, err |-> "could not parse reference"]
    ELSE IF RefType(s.v) < 0
    THEN [r |-> s.r, refs |-> refs, refIds |-> refIds, err |-> "invalid reference type"]
    ELSE parseRelation_append(start, s.r, refLength, refs,
                              [refIds EXCEPT ![RefType(s.v) + 1] = @ + ToInt(d.v)],
                              RefType(s.v), Tail(s.v))

parseRelation_string(start, d, refLength, refs, refIds) ==
    parseRelation_ref(start, d, ReadString(d.r), refLength, refs, refIds)

\* the loop over the references
parseRelation_refs(r, refLength, refs, refIds) ==
    IF refLength > 0
    THEN parseRelation_string(Offset(r), ReadSigned(r), refLength, refs, refIds)
    ELSE IF refLength < 0
    THEN [r |-> r, refs |-> refs, refIds |-> refIds, err |-> "overread"]
    ELSE [r |-> r, refs |-> refs, refIds |-> refIds, err |-> "nil"]

parseRelation_end(l, refIds, tg) ==
    IF tg.err # "nil" THEN [r |-> tg.r, relation |-> l, refIds |-> refIds, err |-> tg.err]
    ELSE [r |-> tg.r, relation |-> [l EXCEPT !.Tags = tg.tags], refIds |-> refIds,
          err |-> tg.r.berr]

parseRelation_tags(offset, length, l, rf) ==
    IF rf.err # "nil"
    THEN [r |-> rf.r, relation |-> [l EXCEPT !.Refs = rf.refs], refIds |-> rf.refIds,
          err |-> rf.err]
    ELSE parseRelation_end([l EXCEPT !.Refs = rf.refs], rf.refIds,
                           parseTags(rf.r, length - (Offset(rf.r) - offset), <<>>))

parseRelation_length(offset, length, l, refIds, rl) ==
    parseRelation_tags(offset, length, l, parseRelation_refs(rl.r, ToInt(rl.v), <<>>, refIds))

parseRelation_refLength(offset, length, l, refIds, mt) ==
    parseRelation_length(offset, length, [l EXCEPT !.Meta = mt.meta], refIds,
                         ReadUnsigned(mt.r))

parseRelation_meta(offset, length, prev, refIds, id) ==
    parseRelation_refLength(offset, length,
                            [prev EXCEPT !.Id = @ + ToInt(id.v), !.Refs = <<>>, !.Tags = <<>>],
                            refIds, parseMeta(id.r, prev.Meta))

parseRelation(r, length, prev, refIds) ==
    parseRelation_meta(Offset(r), length, prev, refIds, ReadSigned(r))

\* the four corners stay as read, in units of 1e-7 degree
parseBoundingBox_y2(x1, y1, x2, y2) ==
    [r |-> y2.r,
     bb |-> [X1 |-> ToInt(x1.v), Y1 |-> ToInt(y1.v),
             X2 |-> ToInt(x2.v), Y2 |-> ToInt(y2.v)],
     err |-> y2.r.berr]

parseBoundingBox_x2(x1, y1, x2) == parseBoundingBox_y2(x1, y1, x2, ReadSigned(x2.r))

parseBoundingBox_y1(x1, y1) == parseBoundingBox_x2(x1, y1, ReadSigned(y1.r))

parseBoundingBox_x1(x1) == parseBoundingBox_y1(x1, ReadSigned(x1.r))

parseBoundingBox(r) == parseBoundingBox_x1(ReadSigned(r))

-----------------------------------------------------------------------------
(* O5MReader. The reader record r adds to the baseReader fields:           *)
(*   err, kind, offset, boundingBox, node, way, nodeId, relation, refIds   *)

BBoxKind == 219

NodeKind == 16

WayKind == 17

RelationKind == 18

ResetKind == 255

EndKind == 254

NoBox == [X1 |-> 0, Y1 |-> 0, X2 |-> 0, Y2 |-> 0]

NewBaseReader(data) ==
    [data |-> data, pos |-> 0, read |-> 0, berr |-> "nil", strings |-> NewStringsTable,
     err |-> "nil", kind |-> 0, offset |-> 0, boundingBox |-> NoBox,
     node |-> ZeroNode, way |-> ZeroWay, nodeId |-> 0, relation |-> ZeroRelation,
     refIds |-> ZeroRefIds]

resetKeepsNodeId(r) ==
    baseReader_Reset([r EXCEPT !.node = ZeroNode, !.way = ZeroWay,
                               !.relation = ZeroRelation, !.refIds = ZeroRefIds])

resetKeepsStrings(r) ==
    [r EXCEPT !.node = ZeroNode, !.way = ZeroWay, !.nodeId = 0,
              !.relation = ZeroRelation, !.refIds = ZeroRefIds]

reset(r) ==
    baseReader_Reset([r EXCEPT !.node = ZeroNode, !.way = ZeroWay, !.nodeId = 0,
                               !.relation = ZeroRelation, !.refIds = ZeroRefIds])

NewO5MReader_ignoringError(h) == [r |-> reset(h.r), err |-> "nil"]

NewO5MReader_checked(h) ==
    IF h.err # "nil" THEN [r |-> h.r, err |-> h.err]
    ELSE [r |-> reset(h.r), err |-> "nil"]

NewO5MReader(data) == NewO5MReader_checked(parseHeader(NewBaseReader(data)))

\* the decoder session: what a Reset clears
Session(r) ==
    [node |-> r.node, way |-> r.way, nodeId |-> r.nodeId, relation |-> r.relation,
     refIds |-> r.refIds, strings |-> r.strings]

FrameAlwaysMatches(start, end, length) == TRUE

FrameMatches(start, end, length) == (end - start) = length

\* How one call of Next() ends. how is "record" (true), "end" (End marker),
\* or "error"; resets lists, for every Reset read during the call, the offset
\* right after the marker and the session found there; frame gives, when a
\* payload was decoded, the declared length and the stream positions around it.
NoFrame == [decoded |-> FALSE, length |-> 0, from |-> 0, to |-> 0]

Fail(r, err, resets) ==
    [r |-> [r EXCEPT !.err = err], ok |-> FALSE, how |-> "error",
     resets |-> resets, frame |-> NoFrame]

\* f: the declared length, Offset() and the stream position before the payload
Next_frame(r, f, resets) ==
    IF ~FrameMatches(f.start, Offset(r), f.length)
    THEN [r |-> [r EXCEPT !.err = "section length and read data mismatch"],
          ok |-> FALSE, how |-> "error", resets |-> resets,
          frame |-> [decoded |-> TRUE, length |-> f.length, from |-> f.from, to |-> r.pos]]
    ELSE [r |-> r, ok |-> TRUE, how |-> "record", resets |-> resets,
          frame |-> [decoded |-> TRUE, length |-> f.length, from |-> f.from, to |-> r.pos]]

Next_node(p, f, resets) ==
    IF p.err # "nil" THEN Fail([p.r EXCEPT !.node = p.node], p.err, resets)
    ELSE Next_frame([p.r EXCEPT !.node = p.node], f, resets)

Next_way_storingAlways(p, f, resets) ==
    IF p.err # "nil"
    THEN Fail([p.r EXCEPT !.way = p.way, !.nodeId = p.nodeId], p.err, resets)
    ELSE Next_frame([p.r EXCEPT !.way = p.way, !.nodeId = p.nodeId], f, resets)

Next_way(p, f, resets) ==
    IF p.err # "nil" THEN Fail([p.r EXCEPT !.way = p.way], p.err, resets)
    ELSE Next_frame([p.r EXCEPT !.way = p.way, !.nodeId = p.nodeId], f, resets)

Next_relation(p, f, resets) ==
    IF p.err # "nil"
    THEN Fail([p.r EXCEPT !.relation = p.relation, !.refIds = p.refIds], p.err, resets)
    ELSE Next_frame([p.r EXCEPT !.relation = p.relation, !.refIds = p.refIds], f, resets)

Next_bbox(p, f, resets) ==
    IF p.err # "nil" THEN Fail(p.r, p.err, resets)
    ELSE Next_frame([p.r EXCEPT !.boundingBox = p.bb], f, resets)

Next_switch(r, kind, f, resets) ==
    CASE kind = NodeKind -> Next_node(parseNode(r, f.length, r.node), f, resets)
      [] kind = WayKind -> Next_way(parseWay(r, f.length, r.way, r.nodeId), f, resets)
      [] kind = RelationKind ->
            Next_relation(parseRelation(r, f.length, r.relation, r.refIds), f, resets)
      [] kind = BBoxKind -> Next_bbox(parseBoundingBox(r), f, resets)
      [] OTHER -> Fail(r, "unsupported dataset", resets)

Next_length(l, kind, resets) ==
    IF l.r.berr # "nil" THEN Fail(l.r, l.r.berr, resets)
    ELSE Next_switch(l.r, kind,
                     [length |-> ToInt(l.v), start |-> Offset(l.r), from |-> l.r.pos],
                     resets)

RECURSIVE Next_loop(_, _)
\* reset() on a Reset marker, r standing after it, and the checkpoint noted
Next_reset(r, resets) ==
    Next_loop(r, Append(resets, [off |-> Offset(r), sess |-> Session(r)]))

Next_kind_surfacingReset(k, resets) ==
    IF k.r.berr # "nil" THEN Fail(k.r, "cannot read dataset header", resets)
    ELSE IF k.v = ResetKind
    THEN [r |-> [reset(k.r) EXCEPT !.kind = k.v], ok |-> TRUE, how |-> "record",
          resets |-> Append(resets, [off |-> Offset(k.r), sess |-> Session(reset(k.r))]),
          frame |-> NoFrame]
    ELSE IF k.v = EndKind
    THEN [r |-> k.r, ok |-> FALSE, how |-> "end", resets |-> resets, frame |-> NoFrame]
    ELSE Next_length(ReadUnsigned([k.r EXCEPT !.kind = k.v]), k.v, resets)

Next_kind(k, resets) ==
    IF k.r.berr # "nil" THEN Fail(k.r, "cannot read dataset header", resets)
    ELSE IF k.v = ResetKind THEN Next_reset(reset(k.r), resets)
    ELSE IF k.v = EndKind
    THEN [r |-> k.r, ok |-> FALSE, how |-> "end", resets |-> resets, frame |-> NoFrame]
    ELSE Next_length(ReadUnsigned([k.r EXCEPT !.kind = k.v]), k.v, resets)

Next_loop(r, resets) == Next_kind(ReadByte([r EXCEPT !.offset = Offset(r)]), resets)

O5MReader_Next(r) == Next_loop(r, <<>>)

-----------------------------------------------------------------------------
(* Checkpoints. src/parser.go has no ResetPoint() and no Seek(), which      *)
(* buildNodeArray (src/geojson.go) calls; they follow the checkpoint/seek   *)
(* protocol of the specification: a checkpoint is the byte offset right     *)
(* after a Reset marker, and a rewind restores the byte position and clears *)
(* the delta counters and the string table as reading that Reset does.      *)

ResetPoints(res) == {res.resets[i] : i \in DOMAIN res.resets}

Seek(r, off) == [reset(r) EXCEPT !.pos = off, !.read = off]

-----------------------------------------------------------------------------
(* Inputs: streams made of a header and a few datasets.                     *)

MaxChunks == 3

MaxCalls == 5

MaxSeeks == 1

Header == <<255, 224, 4>> \o HeaderMagic

ResetChunk == <<255>>

EndChunk == <<254>>

\* node: id +1, no version, lon +1, lat +2, tag "k"="v" spelled out
NodeLit == <<16, 9, 2, 0, 2, 4, 0, 107, 0, 118, 0>>

\* node: id +1, no version, lon +1, lat +2, tag given as back-reference 1
NodeRef == <<16, 5, 2, 0, 2, 4, 1>>

\* node without tags
NodePlain == <<16, 4, 2, 0, 2, 4>>

\* way: id +1, no version, 2 bytes of node references (+1, +2), no tag
WayChunk == <<17, 5, 2, 0, 2, 2, 4>>

\* relation: id +1, no version, 5 bytes of references (+1, "1r": way, role r)
RelChunk == <<18, 8, 2, 0, 5, 2, 0, 49, 114, 0>>

BBoxChunk == <<219, 4, 2, 2, 4, 4>>

\* bounding box whose declared length is one more than its four numbers
BBoxLong == <<219, 5, 2, 2, 4, 4>>

\* a dataset kind the reader does not know, with an empty payload
UnknownChunk == <<19, 0>>

\* a node cut after its id
NodeCut == <<16, 4, 2>>

DecChunks ==
    {ResetChunk, EndChunk, NodeLit, NodeRef, WayChunk, RelChunk, BBoxChunk,
     BBoxLong, UnknownChunk, NodeCut}

ValidChunks == {ResetChunk, EndChunk, NodeLit, NodeRef, WayChunk, RelChunk}

RECURSIVE Concat(_)
Concat(ss) == IF ss = <<>> THEN <<>> ELSE Head(ss) \o Concat(Tail(ss))

ChunkSeqs(C, n) == UNION {[1..k -> C] : k \in 0..n}

Streams(C, n) == {Header \o Concat(cs) : cs \in ChunkSeqs(C, n)}

-----------------------------------------------------------------------------
(* The caller of the decoder: it opens the stream once, then calls Next()   *)
(* (and Seek()) and keeps what each call gave.                              *)

NoCheckpoint == [off |-> 0, sess |-> Session(NewBaseReader(<<>>))]

\* what the caller can see of a call of Next(): the record, when it got one
Yield(r, ok) ==
    [kind     |-> IF ok THEN r.kind ELSE 0,
     node     |-> IF ok /\ r.kind = NodeKind THEN r.node ELSE ZeroNode,
     way      |-> IF ok /\ r.kind = WayKind THEN r.way ELSE ZeroWay,
     relation |-> IF ok /\ r.kind = RelationKind THEN r.relation ELSE ZeroRelation,
     box      |-> IF ok /\ r.kind = BBoxKind THEN r.boundingBox ELSE NoBox]

CallEntry(res) ==
    [off |-> res.r.offset, ok |-> res.ok, how |-> res.how, err |-> res.r.err,
     rec |-> Yield(res.r, res.ok)]

IdleVarint == vin = "idle" /\ vbytes = "idle" /\ vout = "idle"

IdleTable == st = "idle" /\ pushed = "idle" /\ tcall = "idle"

IdleDecoder == rd = "idle" /\ ret = "idle" /\ calls = "idle" /\ live = "idle" /\ aux = "idle"

IdleUnion == uf = "idle" /\ comp = "idle" /\ ucall = "idle"

IdleGeo == gin = "idle" /\ gout = "idle"

IdleExceptVarint == IdleTable /\ IdleDecoder /\ IdleUnion /\ IdleGeo

IdleExceptTable == IdleVarint /\ IdleDecoder /\ IdleUnion /\ IdleGeo

IdleExceptDecoder == IdleVarint /\ IdleTable /\ IdleUnion /\ IdleGeo

IdleExceptUnion == IdleVarint /\ IdleTable /\ IdleDecoder /\ IdleGeo

IdleExceptGeo == IdleVarint /\ IdleTable /\ IdleDecoder /\ IdleUnion

NoCorruption == [at |-> 0, by |-> 0, orig |-> Yield(NewBaseReader(<<>>), FALSE)]

InitDecoder(data, corrupt) ==
    /\ rd = NewBaseReader(data)
    /\ ret = "none"
    /\ calls = <<>>
    /\ live = {}
    /\ aux = [state |-> "new", openErr |-> "nil", last |-> "init", seeks |-> 0,
              seekAt |-> 0, cp |-> NoCheckpoint, frame |-> NoFrame,
              mark |-> [at |-> 0, off |-> 0], corrupt |-> corrupt]
    /\ IdleExceptDecoder

InitDecoderOn(S) == \E data \in S : InitDecoder(data, NoCorruption)

\* NewO5MReader(path): a reader, or nil and an error
Open ==
    /\ aux.state = "new"
    /\ LET o == NewO5MReader(rd.data)
       IN  /\ rd' = o.r
           /\ aux' = [aux EXCEPT !.state = IF o.err = "nil" THEN "open" ELSE "failed",
                                 !.openErr = o.err, !.last = "open"]
    /\ UNCHANGED <<ret, calls, live>>
    /\ UNCHANGED exceptDecoder

\* r.Next()
NextCall ==
    /\ aux.state = "open"
    /\ Len(calls) < MaxCalls
    /\ LET res == O5MReader_Next(rd)
       IN  /\ rd' = res.r
           /\ ret' = IF res.ok THEN "true" ELSE "false"
           /\ calls' = Append(calls, CallEntry(res))
           /\ live' = live \cup ResetPoints(res)
           /\ aux' = [aux EXCEPT !.last = "next", !.frame = res.frame,
                                 !.mark = IF res.resets = <<>> THEN @
                                          ELSE [at  |-> Len(calls),
                                                off |-> res.resets[Len(res.resets)].off]]
    /\ UNCHANGED exceptDecoder

\* r.Seek(cp), which the callers reach only after checking r.Err() == nil
SeekCall ==
    /\ aux.state = "open"
    /\ rd.err = "nil" /\ rd.berr = "nil"
    /\ aux.seeks < MaxSeeks
    /\ \E cp \in live :
          /\ rd' = Seek(rd, cp.off)
          /\ aux' = [aux EXCEPT !.last = "seek", !.seeks = @ + 1, !.cp = cp,
                                !.seekAt = Len(calls),
                                !.mark = [at |-> Len(calls), off |-> cp.off]]
    /\ ret' = "none"
    /\ UNCHANGED <<calls, live>>
    /\ UNCHANGED exceptDecoder

NextDec == Open \/ NextCall

SpecDec == InitDecoderOn(Streams(DecChunks, MaxChunks)) /\ [][NextDec]_vars

NextSeek == Open \/ NextCall \/ SeekCall

SpecSeek == InitDecoderOn(Streams(ValidChunks, MaxChunks)) /\ [][NextSeek]_vars

\* streams whose header is right, wrong in one place, or cut short
HeaderVariants ==
    {Header,
     <<255, 224, 132, 0>> \o HeaderMagic,
     <<254, 224, 4>> \o HeaderMagic,
     <<255, 225, 4>> \o HeaderMagic,
     <<255, 224, 5>> \o HeaderMagic,
     <<255, 224, 3>> \o HeaderMagic,
     <<255, 224, 4, 111, 53, 109, 51>>,
     <<255, 224, 4, 79, 53, 109, 50>>,
     <<224, 4>> \o HeaderMagic}
    \cup {SubSeq(Header, 1, n) : n \in 0..(Len(Header) - 1)}

HeaderStreams ==
    {h \o Concat(cs) : h \in HeaderVariants, cs \in ChunkSeqs({NodeLit, EndChunk}, MaxChunks)}

SpecHdr == InitDecoderOn(HeaderStreams) /\ [][NextDec]_vars

\* valid records, for streams in which one declared length is then changed
RecordChunks == {NodeLit, NodeRef, NodePlain, WayChunk, RelChunk, BBoxChunk}

RECURSIVE RunReader(_, _)
RunReader(r, n) == IF n = 0 THEN r ELSE RunReader(O5MReader_Next(r).r, n - 1)

\* the stream of records cs, and what its c-th record decodes to
ValidStream(cs) == Header \o Concat(cs)

RecordOf(cs, c) ==
    LET r == RunReader(NewO5MReader(ValidStream(cs)).r, c) IN Yield(r, TRUE)

\* the same stream with the length byte of record c changed by `by`
CorruptStream(cs, c, by) ==
    LET at == Len(Header) + Len(Concat(SubSeq(cs, 1, c - 1)))
    IN  [ValidStream(cs) EXCEPT ![at + 2] = @ + by]

InitCorrupt ==
    \E cs \in ChunkSeqs(RecordChunks, MaxChunks) :
        \E c \in 1..(Len(cs) - 1), by \in {-1, 1} :
            InitDecoder(CorruptStream(cs, c, by),
                        [at   |-> Len(Header) + Len(Concat(SubSeq(cs, 1, c - 1))),
                         by   |-> by,
                         orig |-> RecordOf(cs, c)])

SpecCorrupt == InitCorrupt /\ [][NextDec]_vars

-----------------------------------------------------------------------------
(* Claims about the decoder                                                *)

ZeroSession ==
    [node |-> ZeroNode, way |-> ZeroWay, nodeId |-> 0, relation |-> ZeroRelation,
     refIds |-> ZeroRefIds, strings |-> NewStringsTable]

\* what a call of Next() gave, without the place it was read at
Strip(e) == [ok |-> e.ok, how |-> e.how, rec |-> e.rec]

RECURSIVE RunNext(_, _)
RunNext(r, n) ==
    IF n = 0 THEN <<>>
    ELSE LET res == O5MReader_Next(r)
         IN  <<Strip(CallEntry(res))>> \o RunNext(res.r, n - 1)

\* the first n results of a reader freshly opened on the header and data
RunFresh(data, n) == RunNext(NewO5MReader(Header \o data).r, n)

\* the calls made since the last Reset was read (or sought)
SinceMark == [i \in 1..(Len(calls) - aux.mark.at) |-> Strip(calls[aux.mark.at + i])]

\* C2: a Reset marker leaves the session as in a freshly opened reader (ids,
\* coordinates, way-node counter, reference counters, metadata zero, string
\* table empty), and the records read after it are those a fresh reader gives
\* on the rest of the stream, whatever was read before the Reset.
C2_ResetIsFresh ==
    /\ \A cp \in live : cp.sess = ZeroSession
    /\ aux.mark.off > 0 =>
          SinceMark = RunFresh(SubSeq(rd.data, aux.mark.off + 1, Len(rd.data)),
                               Len(calls) - aux.mark.at)

\* a tagged node, a Reset, then a node whose back-reference finds the table empty
C2_Witness ==
    /\ Len(calls) = 2 /\ aux.mark.at = 1
    /\ calls[1].ok /\ calls[1].rec.node.Tags = <<[Key |-> <<107>>, Value |-> <<118>>]>>
    /\ calls[2].ok /\ calls[2].rec.node.Id = 1 /\ calls[2].rec.node.Tags = <<EmptyPair>>

\* C3: once Next() has returned false with an error, every later call returns
\* false with an error.
C3_ErrorAbsorbing ==
    \A i, j \in DOMAIN calls :
        (i < j /\ ~calls[i].ok /\ calls[i].err # "nil")
            => (~calls[j].ok /\ calls[j].err # "nil")

\* C4: Next() returns false without error exactly when it read an End marker,
\* and never returns true while Err() is set.
C4_EndOrError ==
    \A i \in DOMAIN calls :
        /\ (~calls[i].ok /\ calls[i].err = "nil") <=> (calls[i].how = "end")
        /\ calls[i].ok => calls[i].err = "nil"

\* C5: Next() returns true only when the bytes taken from the stream for the
\* payload are exactly the declared length; a decoded payload of any other
\* size ends the call with false and an error.
C5_FrameExact ==
    /\ ret = "true" =>
          aux.frame.decoded /\ aux.frame.to - aux.frame.from = aux.frame.length
    /\ (aux.last = "next" /\ aux.frame.decoded
            /\ aux.frame.to - aux.frame.from # aux.frame.length)
          => (ret = "false" /\ rd.err # "nil")

\* a bounding box of 4 bytes declared as 5 was decoded and refused
C5_Witness ==
    /\ aux.last = "next" /\ aux.frame.decoded
    /\ aux.frame.length = 5 /\ aux.frame.to - aux.frame.from = 4
    /\ ret = "false" /\ rd.err = "section length and read data mismatch"

\* data starts with 0xFF 0xE0, an unsigned varint of n bytes worth 4, "o5m2"
VarintIsFour(bs) ==
    /\ Len(bs) >= 1
    /\ \A i \in 1..(Len(bs) - 1) : bs[i] >= 128
    /\ bs[Len(bs)] < 128
    /\ bs[1] % 128 = 4
    /\ \A i \in 2..Len(bs) : bs[i] % 128 = 0

ValidHeader(data) ==
    \E n \in 1..Len(data) :
        /\ Len(data) >= 2 + n + 4
        /\ data[1] = 255
        /\ data[2] = 224
        /\ VarintIsFour(SubSeq(data, 3, 2 + n))
        /\ SubSeq(data, 3 + n, 6 + n) = <<111, 53, 109, 50>>

\* C7: NewO5MReader gives a reader exactly for a stream that starts with 0xFF,
\* 0xE0, a varint equal to 4 and "o5m2"; otherwise it gives an error, and no
\* record is ever read from the stream.
C7_HeaderValidation ==
    aux.state # "new" =>
        /\ (aux.state = "open") <=> ValidHeader(rd.data)
        /\ (aux.state = "open") <=> (aux.openErr = "nil")
        /\ aux.state = "failed" => (calls = <<>> /\ ret = "none")

\* a stream with a wrong magic string was refused
C7_Witness ==
    /\ aux.state = "failed"
    /\ Len(rd.data) >= 7
    /\ SubSeq(rd.data, 1, 3) = <<255, 224, 4>>
    /\ aux.openErr = "unexpected o5m type"

\* the calls of one forward pass over the stream, with the place of each
RECURSIVE RunPlaced(_, _)
RunPlaced(r, n) ==
    IF n = 0 THEN <<>>
    ELSE LET res == O5MReader_Next(r)
         IN  <<CallEntry(res)>> \o RunPlaced(res.r, n - 1)

ForwardPass == RunPlaced(NewO5MReader(rd.data).r, 2 * MaxCalls)

\* the call of the forward pass that read the dataset following offset off
FirstAfter(fwd, off) == Min({i \in DOMAIN fwd : fwd[i].off >= off})

\* C1: after a seek to a checkpoint reported for a Reset, the byte position,
\* the delta counters and the string table are those found right after that
\* Reset when it was read, and the calls made from there give, one for one,
\* what a single forward pass over the stream gives from that Reset on.
C1_RewindEquivalence ==
    /\ aux.last = "seek" =>
          /\ rd.pos = aux.cp.off /\ Offset(rd) = aux.cp.off
          /\ Session(rd) = aux.cp.sess
    /\ aux.seeks > 0 =>
          LET fwd == ForwardPass
              k   == FirstAfter(fwd, aux.cp.off)
          IN  \A i \in 1..(Len(calls) - aux.seekAt) :
                  calls[aux.seekAt + i] = fwd[k + i - 1]

\* two nodes were read, the reader went back to the Reset before them, and
\* read the second node again, with its tag resolved through the string table
C1_Witness ==
    /\ aux.seeks = 1 /\ aux.seekAt >= 2 /\ Len(calls) = aux.seekAt + 2
    /\ calls[aux.seekAt].rec.node.Id = 2
    /\ calls[Len(calls)].ok
    /\ calls[Len(calls)].rec.node.Id = 2
    /\ calls[Len(calls)].rec.node.Tags = <<[Key |-> <<107>>, Value |-> <<118>>]>>

TagsOf(rec) ==
    CASE rec.kind = NodeKind -> rec.node.Tags
      [] rec.kind = WayKind -> rec.way.Tags
      [] rec.kind = RelationKind -> rec.relation.Tags
      [] OTHER -> <<>>

WithoutTags(rec) ==
    [rec EXCEPT !.node.Tags = <<>>, !.way.Tags = <<>>, !.relation.Tags = <<>>]

\* C6 as claimed: a declared length changed by +1 or -1 makes Next() fail on
\* that record.
C6_LengthChangeFails ==
    \A i \in DOMAIN calls :
        (aux.corrupt.by # 0 /\ calls[i].off = aux.corrupt.at)
            => (~calls[i].ok /\ calls[i].err # "nil")

\* C6 amended: a declared length changed by +1 or -1 makes Next() fail on that
\* record, or return a node, way or relation equal to the original but for
\* its tags: one tag more for +1, one tag fewer for -1.
C6_LengthChangeFailsOrShiftsTags ==
    \A i \in DOMAIN calls :
        (aux.corrupt.by # 0 /\ calls[i].off = aux.corrupt.at)
            => \/ ~calls[i].ok /\ calls[i].err # "nil"
               \/ /\ calls[i].ok
                  /\ calls[i].rec.kind \in {NodeKind, WayKind, RelationKind}
                  /\ WithoutTags(calls[i].rec) = WithoutTags(aux.corrupt.orig)
                  /\ Len(TagsOf(calls[i].rec))
                        = Len(TagsOf(aux.corrupt.orig)) + aux.corrupt.by

\* a record whose length was raised by one came back with one more tag
C6_Witness ==
    \E i \in DOMAIN calls :
        /\ aux.corrupt.by = 1 /\ calls[i].off = aux.corrupt.at
        /\ calls[i].ok
        /\ Len(TagsOf(calls[i].rec)) = Len(TagsOf(aux.corrupt.orig)) + 1

-----------------------------------------------------------------------------
(* Varints: a value is encoded as the o5m format prescribes and handed to   *)
(* readUnsigned or readSigned, followed by some other bytes.                *)

VarintSmallMax == 130

\* 7-bit groups, least significant first, the high bit set on all but the last
RECURSIVE EncodeUnsigned(_)
EncodeUnsigned(w) ==
    LET low  == SumPow2({i \in w : i < 7})
        rest == Shr(w, 7)
    IN  IF rest = {} THEN <<low>> ELSE <<low + 128>> \o EncodeUnsigned(rest)

\* bit 0 of the first byte is the sign, then 6 bits of the magnitude; the
\* magnitude of a negative x is -x-1, that is ^x
EncodeSigned(x) ==
    LET neg   == IsNegative(x)
        mag   == IF neg THEN Not(x) ELSE x
        first == (IF neg THEN 1 ELSE 0) + 2 * SumPow2({i \in mag : i < 6})
        rest  == Shr(mag, 6)
    IN  IF rest = {} THEN <<first>> ELSE <<first + 128>> \o EncodeUnsigned(rest)

\* small values, powers of two, all-ones values, and the complements of these
VarintWords ==
    LET small == {BitsOf(k) : k \in 0..VarintSmallMax}
        edge  == {{k} : k \in 0..(WordBits - 1)} \cup {0..k : k \in 0..(WordBits - 1)}
    IN  small \cup edge \cup {Not(w) : w \in small \cup edge}

VarintTails == {<<>>, <<1>>, <<129, 0>>}

NotDecoded == [done |-> FALSE, n |-> {}, read |-> 0, err |-> "nil", pos |-> 0]

InitVarint ==
    /\ \E x \in VarintWords, sg \in BOOLEAN : vin = [signed |-> sg, x |-> x]
    /\ vbytes = [enc |-> <<>>, data |-> <<>>]
    /\ vout = NotDecoded
    /\ IdleExceptVarint

VarintEncode ==
    /\ vbytes.enc = <<>>
    /\ \E tail \in VarintTails :
          LET enc == IF vin.signed THEN EncodeSigned(vin.x) ELSE EncodeUnsigned(vin.x)
          IN  vbytes' = [enc |-> enc, data |-> enc \o tail]
    /\ UNCHANGED <<vin, vout, exceptVarint>>

VarintDecode ==
    /\ vbytes.enc # <<>>
    /\ ~vout.done
    /\ LET res == IF vin.signed THEN readSigned(vbytes.data, 0)
                  ELSE readUnsigned(vbytes.data, 0)
       IN  vout' = [done |-> TRUE, n |-> res.n, read |-> res.read,
                    err |-> res.err, pos |-> res.pos]
    /\ UNCHANGED <<vin, vbytes, exceptVarint>>

NextVarint == VarintEncode \/ VarintDecode

SpecVarint == InitVarint /\ [][NextVarint]_vars

\* C8: readUnsigned / readSigned applied to the o5m encoding of x return x,
\* without error, and report as many bytes as the encoding has.
C8_VarintRoundTrip ==
    vout.done =>
        /\ vout.err = "nil"
        /\ vout.n = vin.x
        /\ vout.read = Len(vbytes.enc)
        /\ vout.pos = Len(vbytes.enc)

\* a negative value of at least three bytes was decoded, other bytes following
C8_Witness ==
    /\ vout.done /\ vin.signed /\ IsNegative(vin.x)
    /\ Len(vbytes.enc) >= 3 /\ Len(vbytes.data) > Len(vbytes.enc)

-----------------------------------------------------------------------------
(* The string table on its own: a new table, or one that has stored all but *)
(* a few of its TableSize pairs, then Push and Get in any order.            *)

MaxPushes == 3

TableRoom == 2

PairKV == [Key |-> <<107>>, Value |-> <<118>>]

PairA == [Key |-> <<97, 98>>, Value |-> <<>>]

\* one byte more than a pair may have
PairTooLong == [Key |-> Bytes(MaxPairLen, 120), Value |-> <<121>>]

\* as many bytes as a pair may have
PairLimit == [Key |-> Bytes(MaxPairLen - 1, 120), Value |-> <<121>>]

TablePairs == {PairKV, PairA, PairTooLong, PairLimit}

Distances == ((0 - 1)..(MaxPushes + 1)) \cup ((TableSize - 1)..(TableSize + 1))

\* the table after m pairs FillerPair were pushed on a new one, m <= TableSize
Filled(m) == [entries |-> <<>>, latest |-> m % TableSize, filled |-> m]

NoCall == [op |-> "none", pushes |-> 0, n |-> 0, pair |-> EmptyPair,
           res |-> [Key |-> <<>>, Value |-> <<>>, err |-> "nil"]]

\* pushed: the pairs stored so far: base times FillerPair, then rest
InitTable ==
    /\ \E m \in {0, TableSize - TableRoom} :
          /\ st = Filled(m)
          /\ pushed = [base |-> m, rest |-> <<>>]
    /\ tcall = NoCall
    /\ IdleExceptTable

PushCall ==
    /\ tcall.pushes < MaxPushes
    /\ \E p \in TablePairs :
          /\ st' = Push(st, p.Key, p.Value)
          /\ pushed' = IF Len(p.Key) + Len(p.Value) > MaxPairLen THEN pushed
                       ELSE [pushed EXCEPT !.rest = Append(@, p)]
          /\ tcall' = [NoCall EXCEPT !.op = "Push", !.pushes = tcall.pushes + 1,
                                  !.pair = p]
    /\ UNCHANGED exceptTable

GetCall ==
    /\ \E n \in Distances :
          tcall' = [tcall EXCEPT !.op = "Get", !.n = n, !.res = Get(st, n)]
    /\ UNCHANGED <<st, pushed, exceptTable>>

NextTable == PushCall \/ GetCall

SpecTable == InitTable /\ [][NextTable]_vars

Stored == pushed.base + Len(pushed.rest)

\* the k-th most recently stored pair, 1 <= k <= Stored
KthRecent(k) ==
    IF k <= Len(pushed.rest) THEN pushed.rest[Len(pushed.rest) - k + 1] ELSE FillerPair

Found(p) == [Key |-> p.Key, Value |-> p.Value, err |-> "nil"]

\* C9: Get(k), 1 <= k <= min(stored pairs, capacity), returns the k-th most
\* recently stored pair, also once the ring has wrapped; pairs dropped for
\* their size do not count.
C9_GetKthRecent ==
    /\ tcall.op # "Get" =>
          \A k \in 1..Min({Stored, TableSize}) : Get(st, k) = Found(KthRecent(k))
    /\ (tcall.op = "Get" /\ 1 <= tcall.n /\ tcall.n <= Min({Stored, TableSize}))
          => tcall.res = Found(KthRecent(tcall.n))

\* the ring has wrapped, and Get went back past slot 0 to a pair stored before
C9_Witness ==
    /\ Stored > TableSize
    /\ tcall.op = "Get" /\ tcall.n > st.latest /\ tcall.n <= MaxPushes
    /\ tcall.res = Found(KthRecent(tcall.n)) /\ tcall.res.Key # <<>>

\* C10: Get returns an error and no pair for a distance that is 0, negative,
\* or greater than the capacity.
C10_GetOutOfRange ==
    (tcall.op = "Get" /\ (tcall.n <= 0 \/ tcall.n > TableSize))
        => (tcall.res.err # "nil" /\ tcall.res.Key = <<>> /\ tcall.res.Value = <<>>)

\* the pair handed to the Push that has just run is over the size limit
Oversize(p) == Len(p.Key) + Len(p.Value) > MaxPairLen

\* C11: a Push of a pair of more than 250 bytes changes neither the entries nor
\* the insertion position, so every distance gives what it gave before and no
\* Get ever returns that pair; a pair of exactly 250 bytes is stored and is the
\* most recent one.
C11_OversizeDropped ==
    /\ [][tcall'.op = "Push" =>
            IF Oversize(tcall'.pair)
            THEN /\ st' = st
                 /\ \A n \in Distances : Get(st', n) = Get(st, n)
            ELSE /\ st'.latest = (st.latest + 1) % TableSize
                 /\ Get(st', 1) = Found(tcall'.pair)]_vars
    /\ [](tcall.op = "Get" =>
            ~Oversize([Key |-> tcall.res.Key, Value |-> tcall.res.Value]))

\* a pair of exactly 250 bytes was stored, then a larger one was pushed
C11_Witness ==
    /\ tcall.op = "Push" /\ Oversize(tcall.pair)
    /\ Len(pushed.rest) > 0 /\ pushed.rest[Len(pushed.rest)] = PairLimit
    /\ Get(st, 1) = Found(PairLimit)

-----------------------------------------------------------------------------
(* UnionFind (the union-find listing of src/README.md). A node is its index *)
(* in u.nodes; parent[i] is the index of the node nodes[i].Parent points to. *)

NewUnionFind(count) ==
    [parent |-> [i \in 0..(count - 1) |-> i], rank |-> [i \in 0..(count - 1) |-> 0]]

RECURSIVE find(_, _)
find(u, n) == IF u.parent[n] = n THEN n ELSE find(u, u.parent[n])

\* the parent of the element, not the root of its set
Find_parent(u, id) == u.parent[id]

\* nodes[i].Id = i
Find(u, id) == find(u, id)

\* n2.Parent = n1 on equal ranks, with n2.Rank++ instead of n1.Rank++
Merge_promotingSecond(u, n1, n2) ==
    IF n1 = n2 THEN u
    ELSE IF u.rank[n1] < u.rank[n2] THEN [u EXCEPT !.parent[n1] = n2]
    ELSE IF u.rank[n1] > u.rank[n2] THEN [u EXCEPT !.parent[n2] = n1]
    ELSE [u EXCEPT !.parent[n1] = n2, !.rank[n2] = @ + 1]

\* n1, n2: the roots found for i1 and i2
Merge_roots(u, n1, n2) ==
    IF n1 = n2 THEN u
    ELSE IF u.rank[n1] < u.rank[n2] THEN [u EXCEPT !.parent[n1] = n2]
    ELSE IF u.rank[n1] > u.rank[n2] THEN [u EXCEPT !.parent[n2] = n1]
    ELSE [u EXCEPT !.parent[n2] = n1, !.rank[n1] = @ + 1]

Merge(u, i1, i2) == Merge_roots(u, find(u, i1), find(u, i2))

-----------------------------------------------------------------------------
(* The union-find on its own: NewUnionFind(UFCount), then Merge and Find in *)
(* any order.                                                               *)

\* the count of TestUnionFind
UFCount == 5

MaxMerges == 4

UFIds == 0..(UFCount - 1)

NoUCall == [op |-> "none", merges |-> 0, i1 |-> 0, i2 |-> 0, res |-> 0]

\* comp[i]: the smallest element of the set of i
InitUnion ==
    /\ uf = NewUnionFind(UFCount)
    /\ comp = [i \in UFIds |-> i]
    /\ ucall = NoUCall
    /\ IdleExceptUnion

\* the sets of i1 and i2 become one set
Joined(c, i1, i2) ==
    [k \in DOMAIN c |-> IF c[k] \in {c[i1], c[i2]} THEN Min({c[i1], c[i2]}) ELSE c[k]]

MergeCall ==
    /\ ucall.merges < MaxMerges
    /\ \E i1, i2 \in UFIds :
          /\ uf' = Merge(uf, i1, i2)
          /\ comp' = Joined(comp, i1, i2)
          /\ ucall' = [op |-> "Merge", merges |-> ucall.merges + 1,
                       i1 |-> i1, i2 |-> i2, res |-> 0]
    /\ UNCHANGED exceptUnion

FindCall ==
    /\ \E i \in UFIds :
          ucall' = [ucall EXCEPT !.op = "Find", !.i1 = i, !.i2 = i, !.res = Find(uf, i)]
    /\ UNCHANGED <<uf, comp, exceptUnion>>

NextUnion == MergeCall \/ FindCall

SpecUnion == InitUnion /\ [][NextUnion]_vars

\* what following the parent links from i for k steps reaches
RECURSIVE Ancestor(_, _, _)
Ancestor(u, i, k) == IF k = 0 THEN i ELSE Ancestor(u, u.parent[i], k - 1)

IsRoot(u, i) == u.parent[i] = i

\* C12: after any sequence of merges, following the parent links from any
\* element ends at a root; Find(i) = Find(j) exactly when i and j were put in
\* one set by the merges so far; Find(Find(i)) = Find(i); and a call of Find
\* returns that root.
C12_FindIsConnectivity ==
    /\ \A i \in UFIds : IsRoot(uf, Ancestor(uf, i, UFCount - 1))
    /\ \A i \in UFIds : IsRoot(uf, Find(uf, i)) /\ Find(uf, Find(uf, i)) = Find(uf, i)
    /\ \A i, j \in UFIds : (Find(uf, i) = Find(uf, j)) <=> (comp[i] = comp[j])
    /\ ucall.op = "Find" => ucall.res = Ancestor(uf, ucall.i1, UFCount - 1)

\* three merges made one set of four elements and left the fifth alone, and Find
\* of an element two links away from its root has returned that root
C12_Witness ==
    /\ ucall.op = "Find" /\ ucall.merges = 3
    /\ Cardinality({i \in UFIds : comp[i] = comp[ucall.i1]}) = 4
    /\ uf.parent[ucall.i1] # ucall.res /\ uf.parent[ucall.i1] # ucall.i1
    /\ \E j \in UFIds : Find(uf, j) # ucall.res

SameSet(u, i, j) == Find(u, i) = Find(u, j)

\* C13: Merge(a, b) on two sets puts the root of lower rank under the root of
\* higher rank, on equal ranks b's root under a's root with the rank of a's
\* root raised by one; no other link or rank changes and the representative of
\* every other set stays; Merge inside one set changes nothing.
C13_MergeByRank ==
    [][ucall'.op = "Merge" =>
        LET n1 == Find(uf, ucall'.i1)
            n2 == Find(uf, ucall'.i2)
        IN  IF n1 = n2 THEN uf' = uf
            ELSE /\ uf.rank[n1] < uf.rank[n2] =>
                        uf' = [uf EXCEPT !.parent[n1] = n2]
                 /\ uf.rank[n1] > uf.rank[n2] =>
                        uf' = [uf EXCEPT !.parent[n2] = n1]
                 /\ uf.rank[n1] = uf.rank[n2] =>
                        uf' = [uf EXCEPT !.parent[n2] = n1, !.rank[n1] = uf.rank[n1] + 1]
                 /\ \A k \in UFIds :
                        (~SameSet(uf, k, n1) /\ ~SameSet(uf, k, n2))
                            => Find(uf', k) = Find(uf, k)]_vars

\* the state of the test after Merge(1,3), Merge(0,2), Merge(2,1), Merge(2,4):
\* every element has representative 0
C13_Witness ==
    /\ ucall.op = "Merge" /\ ucall.merges = 4 /\ ucall.i1 = 2 /\ ucall.i2 = 4
    /\ uf.parent = [i \in UFIds |-> IF i = 3 THEN 1 ELSE 0]
    /\ uf.rank = [i \in UFIds |-> IF i = 0 THEN 2 ELSE IF i = 1 THEN 1 ELSE 0]
    /\ \A i \in UFIds : Find(uf, i) = 0

-----------------------------------------------------------------------------
(* Linestring, RingParts and the assembly of rings (src/unnamed/part_000).  *)
(* A Point is a pair <<Lon, Lat>>; a Linestring is a record of its Id, Role *)
(* and Points. A slice of pointers whose targets the code changes in place  *)
(* is a sequence of values that is rewritten where the code writes.         *)

Start(ls) == ls.Points[1]

End(ls) == ls.Points[Len(ls.Points)]

Reverse(ls) ==
    [ls EXCEPT !.Points = [i \in 1..Len(ls.Points) |-> ls.Points[Len(ls.Points) + 1 - i]]]

mergeLines_unturned(l1, l2) == l2

\* l2 after the Reverse() it may get
mergeLines_second(l1, l2) ==
    IF Start(l1) = Start(l2) \/ End(l1) = End(l2) THEN Reverse(l2) ELSE l2

\* l1 after the call, l2 being already turned; panic is the Go panic
mergeLines_first(l1, l2) ==
    IF End(l1) = Start(l2)
    THEN [line |-> [l1 EXCEPT !.Points = @ \o Tail(l2.Points)], panic |-> FALSE]
    ELSE IF Start(l1) = End(l2)
    THEN [line |-> [l1 EXCEPT !.Points = l2.Points \o Tail(@)], panic |-> FALSE]
    ELSE [line |-> l1, panic |-> TRUE]

mergeLines(l1, l2) ==
    [l1 |-> mergeLines_first(l1, mergeLines_second(l1, l2)).line,
     l2 |-> mergeLines_second(l1, l2),
     panic |-> mergeLines_first(l1, mergeLines_second(l1, l2)).panic]

\* the start and the end of every line, in the order of the first loop
EndSeq(lines) ==
    [k \in 1..(2 * Len(lines)) |->
        [pt |-> IF k % 2 = 1 THEN Start(lines[(k + 1) \div 2]) ELSE End(lines[(k + 1) \div 2]),
         idx |-> ((k + 1) \div 2) - 1]]

IsAt(e, p) == e.pt = p

\* endPoints[p] of mergeArcs: the indices (from 0) of the lines that start or
\* end at p
mergeArcs_indices(lines, p) == SelectSeq(EndSeq(lines), LAMBDA e : IsAt(e, p))

EndPointKeys(lines) == {EndSeq(lines)[k].pt : k \in 1..(2 * Len(lines))}

\* lines[uf.Find(i)] = lines[i], after mergeLines gave m
mergeArcs_store(lines, u, i, j, m) ==
    [k \in 1..Len(lines) |->
        IF k = Find(u, i) + 1 THEN m.l1
        ELSE IF k = i + 1 THEN m.l1
        ELSE IF k = j + 1 THEN m.l2
        ELSE lines[k]]

\* uf.Merge(i, j); mergeLines(lines[i], lines[j]); lines[uf.Find(i)] = lines[i]
mergeArcs_merge(s, i, j, m) ==
    [lines |-> mergeArcs_store(s.lines, Merge(s.uf, i, j), i, j, m),
     uf |-> Merge(s.uf, i, j),
     panic |-> s.panic \/ m.panic]

mergeArcs_roots(s, i, j) ==
    IF i = j THEN s
    ELSE mergeArcs_merge(s, i, j, mergeLines(s.lines[i + 1], s.lines[j + 1]))

\* a round that merges the two lines found at the point, not their arcs
mergeArcs_point_unrooted(s, indices) ==
    IF Len(indices) # 2 \/ s.panic THEN s
    ELSE mergeArcs_roots(s, indices[1].idx, indices[2].idx)

\* one round of the loop over endPoints
mergeArcs_point(s, indices) ==
    IF Len(indices) # 2 \/ s.panic THEN s
    ELSE mergeArcs_roots(s, Find(s.uf, indices[1].idx), Find(s.uf, indices[2].idx))

\* the loop over endPoints; order is the order in which range gives the keys
\* of the map, which Go leaves open; the indices were stored by the first loop
RECURSIVE mergeArcs_loop(_, _, _)
mergeArcs_loop(s, lines0, order) ==
    IF order = <<>> THEN s
    ELSE mergeArcs_loop(mergeArcs_point(s, mergeArcs_indices(lines0, Head(order))),
                        lines0, Tail(order))

IsKept(s, k) == Find(s.uf, k - 1) = k - 1

mergeArcs_kept(s) ==
    [kept |-> [k \in 1..Cardinality({n \in 1..Len(s.lines) : IsKept(s, n)}) |->
                 s.lines[CHOOSE n \in 1..Len(s.lines) :
                            /\ IsKept(s, n)
                            /\ Cardinality({x \in 1..n : IsKept(s, x)}) = k]],
     panic |-> s.panic]

mergeArcs(lines, order) ==
    mergeArcs_kept(mergeArcs_loop([lines |-> lines, uf |-> NewUnionFind(Len(lines)),
                                   panic |-> FALSE], lines, order))

\* RingParts{parts: {line}, start: line.Start(), end: line.End()}
NewRingParts(line) ==
    [parts |-> <<line>>, start |-> Start(line), end |-> End(line), role |-> <<>>]

IsClosed(r) == r.start = r.end

RingParts_unturned(r, p) == p

\* the clone of p, turned when it ends at the end of r
RingParts_oriented(r, p) == IF End(p) = r.end THEN Reverse(p) ELSE p

RingParts_append(r, p) ==
    IF r.end = Start(p)
    THEN [r |-> [r EXCEPT !.end = End(p), !.parts = Append(@, p)], panic |-> FALSE]
    ELSE [r |-> r, panic |-> TRUE]

RingParts_Push(r, p) == RingParts_append(r, RingParts_oriented(r, p))

\* the RingParts after Pop() (the part returned is not used by makeRing)
RingParts_Pop(r) ==
    [r EXCEPT !.parts = SubSeq(@, 1, Len(@) - 1), !.end = Start(r.parts[Len(r.parts)])]

MergedRole(base, other) ==
    IF base.Role # <<>> /\ base.Role # other.Role THEN <<>> ELSE base.Role

RECURSIVE MakeRing_loop(_, _)
MakeRing_loop(base, others) ==
    IF others = <<>>
    THEN [ring |-> base, panic |-> Start(base) # End(base)]
    ELSE IF End(base) # Start(Head(others))
    THEN [ring |-> base, panic |-> TRUE]
    ELSE MakeRing_loop([base EXCEPT !.Points = @ \o Tail(Head(others).Points),
                                    !.Role = MergedRole(base, Head(others))],
                       Tail(others))

NoLine == [Id |-> 0, Role |-> <<>>, Points |-> <<>>]

MakeRing(r) ==
    IF ~IsClosed(r) \/ Len(r.parts) = 0 THEN [ring |-> NoLine, panic |-> TRUE]
    ELSE MakeRing_loop(r.parts[1], Tail(r.parts))

\* geos: twice the signed area of the triangle a, b, c
Cross(a, b, c) == (b[1] - a[1]) * (c[2] - a[2]) - (b[2] - a[2]) * (c[1] - a[1])

Sign(x) == IF x > 0 THEN 1 ELSE IF x < 0 THEN 0 - 1 ELSE 0

\* geos: p lies on the segment a, b
OnSegment(a, b, p) ==
    /\ Cross(a, b, p) = 0
    /\ Min({a[1], b[1]}) <= p[1] /\ p[1] <= Max({a[1], b[1]})
    /\ Min({a[2], b[2]}) <= p[2] /\ p[2] <= Max({a[2], b[2]})

\* geos: the segments a, b and c, d have a point in common
SegmentsMeet(a, b, c, d) ==
    \/ /\ Sign(Cross(a, b, c)) * Sign(Cross(a, b, d)) < 0
       /\ Sign(Cross(c, d, a)) * Sign(Cross(c, d, b)) < 0
    \/ OnSegment(a, b, c) \/ OnSegment(a, b, d)
    \/ OnSegment(c, d, a) \/ OnSegment(c, d, b)

\* geos: the segments a, b and b, c have more than b in common
SegmentsOverlap(a, b, c) == OnSegment(b, c, a) \/ OnSegment(a, b, c)

\* geos IsSimple for a closed list of points: two segments meet only where
\* they follow each other, and there in one point
IsSimple(pts) ==
    \A i, j \in 1..(Len(pts) - 1) :
        i < j =>
            IF j = i + 1 THEN ~SegmentsOverlap(pts[i], pts[j], pts[j + 1])
            ELSE IF i = 1 /\ j = Len(pts) - 1
            THEN ~SegmentsOverlap(pts[j], pts[1], pts[2])
            ELSE ~SegmentsMeet(pts[i], pts[i + 1], pts[j], pts[j + 1])

\* geos.NewLinearRing takes no points or at least four, the first being the last
makeLinearRing(r) == Len(r.Points) >= 4 /\ r.Points[1] = r.Points[Len(r.Points)]

isValidRing(r) == makeLinearRing(r) /\ IsSimple(r.Points)

\* endPoints[p] of makeEndpoints: the lines that start or end at p, a line
\* that does both being there twice
makeEndpoints(lines, p) == SelectSeq(EndSeq(lines), LAMBDA e : IsAt(e, p))

\* What makeRing returns: ok is r != nil; used lists the ids of parts.parts
\* when the ring was made; seen and lines are the map and the lines as the
\* call left them, parts is its RingParts when it returned; log holds, for
\* the call and for every call made under it, what it was entered with and
\* what it left.
NoParts == [parts |-> <<>>, start |-> <<>>, end |-> <<>>, role |-> <<>>]

NoRing(seen, panic) ==
    [ok |-> FALSE, ring |-> NoLine, used |-> <<>>, seen |-> seen, panic |-> panic,
     parts |-> NoParts, lines |-> <<>>, log |-> {}]

\* return nil
makeRing_nil(parts, lines, seen, log) ==
    [ok |-> FALSE, ring |-> NoLine, used |-> <<>>, seen |-> seen, panic |-> FALSE,
     parts |-> parts, lines |-> lines, log |-> log]

Ids(parts) == [k \in 1..Len(parts) |-> parts[k].Id]

makeRing_made(parts, lines, seen, m) ==
    IF m.panic THEN NoRing(seen, TRUE)
    ELSE IF ~isValidRing(m.ring) THEN makeRing_nil(parts, lines, seen, {})
    ELSE [ok |-> TRUE, ring |-> m.ring, used |-> Ids(parts.parts), seen |-> seen,
          panic |-> FALSE, parts |-> parts, lines |-> lines, log |-> {}]

Linestring_shared(p, part) == part

\* the Linestring handed to Push, after the call: Push turns and keeps
\* a Clone() of it, here part
Linestring_Clone(p, part) == p

\* the lines after parts.Push(next), next being lines[k]
makeRing_pushed(lines, k, next, r) ==
    [lines EXCEPT ![k] = Linestring_Clone(next, r.parts[Len(r.parts)])]

RECURSIVE makeRing(_, _, _)
RECURSIVE makeRing_loop(_, _, _, _, _)
\* a search that gives up when its first candidate leads nowhere
makeRing_tried_once(res, parts, cands, next, log) ==
    IF res.ok \/ res.panic THEN [res EXCEPT !.log = @ \cup log]
    ELSE makeRing_nil(parts, res.lines, res.seen \ {next.Id}, log \cup res.log)

\* after the recursive call: return r, or Pop() and seen[next.Id] = false
makeRing_tried(res, parts, cands, next, log) ==
    IF res.ok \/ res.panic THEN [res EXCEPT !.log = @ \cup log]
    ELSE makeRing_loop(parts, res.lines, res.seen \ {next.Id}, Tail(cands),
                       log \cup res.log)

\* seen[next.Id] = true; parts.Push(next); makeRing(parts, endPoints, seen)
makeRing_push(pushed_, parts, lines, seen, cands, next, log) ==
    IF pushed_.panic THEN NoRing(seen, TRUE)
    ELSE makeRing_tried(makeRing(pushed_.r,
                                 makeRing_pushed(lines, Head(cands).idx + 1, next, pushed_.r),
                                 seen \cup {next.Id}),
                        RingParts_Pop(pushed_.r), cands, next, log)

\* a search that leaves out the lines of its own chain only
makeRing_nextAgain(parts, lines, seen, cands, next, log) ==
    IF \E k \in 1..Len(parts.parts) : parts.parts[k].Id = next.Id
    THEN makeRing_loop(parts, lines, seen, Tail(cands), log)
    ELSE IF Start(next) # parts.end /\ End(next) # parts.end
    THEN makeRing_loop(parts, lines, seen, Tail(cands), log)
    ELSE makeRing_push(RingParts_Push(parts, next), parts, lines, seen, cands, next, log)

makeRing_next(parts, lines, seen, cands, next, log) ==
    IF next.Id \in seen THEN makeRing_loop(parts, lines, seen, Tail(cands), log)
    ELSE IF Start(next) # parts.end /\ End(next) # parts.end
    THEN makeRing_loop(parts, lines, seen, Tail(cands), log)
    ELSE makeRing_push(RingParts_Push(parts, next), parts, lines, seen, cands, next, log)

\* the loop over endPoints[parts.End()], cands being what is left of it
makeRing_loop(parts, lines, seen, cands, log) ==
    IF cands = <<>> THEN makeRing_nil(parts, lines, seen, log)
    ELSE makeRing_next(parts, lines, seen, cands, lines[Head(cands).idx + 1], log)

makeRing_body(parts, lines, seen) ==
    IF parts.start = parts.end THEN makeRing_made(parts, lines, seen, MakeRing(parts))
    ELSE makeRing_loop(parts, lines, seen, makeEndpoints(lines, parts.end), {})

\* the call, entered in the log with what it left
makeRing_logged(parts, lines, seen, res) ==
    [res EXCEPT !.log = @ \cup {[parts |-> parts, seen |-> seen, lines |-> lines,
                                 ok |-> res.ok, panic |-> res.panic,
                                 partsOut |-> res.parts, seenOut |-> res.seen,
                                 linesOut |-> res.lines]}]

makeRing(parts, lines, seen) ==
    makeRing_logged(parts, lines, seen, makeRing_body(parts, lines, seen))

\* What makeRings returns: rings and err; arcs is what mergeArcs kept, used
\* lists for every ring the ids of the arcs it was made of, log is the log of
\* its calls of makeRing.
RECURSIVE makeRings_loop(_, _, _, _)
makeRings_ring(res, lines, k, acc) ==
    IF res.panic THEN [acc EXCEPT !.panic = TRUE]
    ELSE IF ~res.ok
    THEN [acc EXCEPT !.rings = <<>>, !.err = "cannot close ring", !.log = @ \cup res.log]
    ELSE makeRings_loop(res.lines, k + 1, res.seen,
                        [acc EXCEPT !.rings = Append(@, res.ring),
                                    !.used = Append(@, res.used),
                                    !.log = @ \cup res.log])

makeRings_loop(lines, k, seen, acc) ==
    IF k > Len(lines) THEN acc
    ELSE IF lines[k].Id \in seen THEN makeRings_loop(lines, k + 1, seen, acc)
    ELSE makeRings_ring(makeRing(NewRingParts(lines[k]), lines, seen \cup {lines[k].Id}),
                        lines, k, acc)

makeRings_merged(m) ==
    IF m.panic
    THEN [rings |-> <<>>, err |-> "nil", panic |-> TRUE, arcs |-> m.kept, used |-> <<>>,
          log |-> {}]
    ELSE makeRings_loop(m.kept, 1, {},
                        [rings |-> <<>>, err |-> "nil", panic |-> FALSE,
                         arcs |-> m.kept, used |-> <<>>, log |-> {}])

makeRings(lines, order) == makeRings_merged(mergeArcs(lines, order))

-----------------------------------------------------------------------------
(* makeRings on its own: the lines of a drawing, handed over in any order   *)
(* and each in either direction, and the map of mergeArcs ranged in any     *)
(* order.                                                                   *)

\* the unit square cut in four, three, two and one piece
SquareFour == << <<<<0, 0>>, <<1, 0>>>>, <<<<1, 0>>, <<1, 1>>>>,
                 <<<<1, 1>>, <<0, 1>>>>, <<<<0, 1>>, <<0, 0>>>> >>

SquareThree == << <<<<0, 0>>, <<1, 0>>>>, <<<<1, 0>>, <<1, 1>>>>,
                  <<<<1, 1>>, <<0, 1>>, <<0, 0>>>> >>

SquareTwo == << <<<<0, 0>>, <<1, 0>>, <<1, 1>>>>, <<<<1, 1>>, <<0, 1>>, <<0, 0>>>> >>

SquareOne == << <<<<0, 0>>, <<1, 0>>, <<1, 1>>, <<0, 1>>, <<0, 0>>>> >>

\* two triangles apart from each other, each in two pieces
TwoTriangles == << <<<<0, 0>>, <<1, 0>>>>, <<<<1, 0>>, <<1, 1>>, <<0, 0>>>>,
                   <<<<3, 0>>, <<4, 0>>>>, <<<<4, 0>>, <<4, 1>>, <<3, 0>>>> >>

\* three ways from <<1,0>> to <<1,2>>
Theta == << <<<<1, 0>>, <<0, 1>>, <<1, 2>>>>, <<<<1, 0>>, <<1, 1>>, <<1, 2>>>>,
            <<<<1, 0>>, <<2, 1>>, <<1, 2>>>> >>

\* four ways from <<1,0>> to <<1,2>>, the first two running together at first
FourWays == << <<<<1, 0>>, <<0, 1>>, <<1, 2>>>>,
               <<<<1, 0>>, <<0, 1>>, <<1, 1>>, <<1, 2>>>>,
               <<<<1, 0>>, <<2, 1>>, <<1, 2>>>>,
               <<<<1, 0>>, <<3, 1>>, <<1, 2>>>> >>

OpenChain == << <<<<0, 0>>, <<1, 0>>>>, <<<<1, 0>>, <<1, 1>>>> >>

\* a closed line that crosses itself
BowTie == << <<<<0, 0>>, <<1, 1>>>>, <<<<1, 1>>, <<1, 0>>>>,
             <<<<1, 0>>, <<0, 1>>>>, <<<<0, 1>>, <<0, 0>>>> >>

\* there and back again
BackAndForth == << <<<<0, 0>>, <<1, 0>>>>, <<<<1, 0>>, <<0, 0>>>> >>

\* two ways from <<1,0>> to <<1,2>> that run together at first
TwinWays == << <<<<1, 0>>, <<0, 1>>, <<1, 2>>>>,
               <<<<1, 0>>, <<0, 1>>, <<1, 1>>, <<1, 2>>>> >>

\* a triangle in two pieces with a spur at each of the two points they share
Spurs == << <<<<1, 0>>, <<3, 0>>>>, <<<<3, 0>>, <<4, 0>>>>,
            <<<<3, 0>>, <<2, 1>>, <<1, 0>>>>, <<<<1, 0>>, <<0, 0>>>> >>

\* two loops that touch in <<2,1>>, each in two pieces
Eight == << <<<<0, 1>>, <<1, 2>>, <<2, 1>>>>, <<<<0, 1>>, <<1, 0>>, <<2, 1>>>>,
            <<<<2, 1>>, <<3, 2>>, <<4, 1>>>>, <<<<2, 1>>, <<3, 0>>, <<4, 1>>>> >>

\* a loop in two pieces and a tail at one of the points where they meet
LoopTail == << <<<<0, 1>>, <<1, 2>>, <<2, 1>>>>, <<<<0, 1>>, <<1, 0>>, <<2, 1>>>>,
               <<<<2, 1>>, <<3, 1>>>> >>

\* a line of one point, alone and at the end of a chain of two lines
Dot == << <<<<0, 0>>>> >>

Dots == << <<<<0, 0>>>>, <<<<0, 0>>, <<1, 0>>>>, <<<<1, 0>>, <<2, 0>>>> >>

Cycles == {SquareFour, SquareThree, SquareTwo, SquareOne}

Drawings ==
    Cycles \cup {TwoTriangles, Theta, FourWays, OpenChain, BowTie, BackAndForth,
                 TwinWays, Spurs, Eight, LoopTail}

ReversePoints(pts) == [i \in 1..Len(pts) |-> pts[Len(pts) + 1 - i]]

\* the pieces of drawing d in the order perm, those of flips turned; the id of
\* a piece is its place in d
Arranged(d, perm, flips) ==
    [k \in 1..Len(d) |->
        [Id |-> perm[k], Role |-> <<>>,
         Points |-> IF perm[k] \in flips THEN ReversePoints(d[perm[k]])
                    ELSE d[perm[k]]]]

Arrangements(d) ==
    {Arranged(d, perm, flips) : perm \in Permutations(1..Len(d)),
                                flips \in SUBSET (1..Len(d))}

RECURSIVE Orderings(_)
Orderings(S) ==
    IF S = {} THEN {<<>>}
    ELSE UNION {{<<x>> \o s : s \in Orderings(S \ {x})} : x \in S}

RECURSIVE SomeOrdering(_)
SomeOrdering(S) ==
    IF S = {} THEN <<>>
    ELSE <<CHOOSE x \in S : TRUE>> \o SomeOrdering(S \ {CHOOSE x \in S : TRUE})

\* the points where exactly two line ends meet
MergePoints(lines) ==
    {p \in EndPointKeys(lines) : Len(mergeArcs_indices(lines, p)) = 2}

\* The orders in which range may give the keys of endPoints. A key that has
\* not two indices is skipped without effect, so these keys are put last.
MapOrders(lines) ==
    {o \o SomeOrdering(EndPointKeys(lines) \ MergePoints(lines)) :
        o \in Orderings(MergePoints(lines))}

NoRings == [done |-> FALSE, order |-> <<>>,
            res |-> [rings |-> <<>>, err |-> "nil", panic |-> FALSE,
                     arcs |-> <<>>, used |-> <<>>, log |-> {}]]

InitRings ==
    /\ \E d \in Drawings : \E lines \in Arrangements(d) :
          gin = [drawing |-> d, lines |-> lines]
    /\ gout = NoRings
    /\ IdleExceptGeo

MakeRingsCall ==
    /\ ~gout.done
    /\ \E order \in MapOrders(gin.lines) :
          gout' = [done |-> TRUE, order |-> order, res |-> makeRings(gin.lines, order)]
    /\ UNCHANGED <<gin, exceptGeo>>

NextRings == MakeRingsCall

SpecRings == InitRings /\ [][NextRings]_vars

\* the segments of a list of points, whatever their direction
Segments(pts) == {{pts[i], pts[i + 1]} : i \in 1..(Len(pts) - 1)}

AllSegments(lines) == UNION {Segments(lines[k].Points) : k \in 1..Len(lines)}

RECURSIVE SegmentCount(_)
SegmentCount(lines) ==
    IF lines = <<>> THEN 0
    ELSE (Len(Head(lines).Points) - 1) + SegmentCount(Tail(lines))

\* the places where the id of an arc stands in the rings made
UsesOf(id) ==
    {u \in {<<r, k>> : r \in 1..Len(gout.res.used), k \in 1..Len(gin.lines)} :
        u[2] <= Len(gout.res.used[u[1]]) /\ gout.res.used[u[1]][u[2]] = id}

Succeeded == gout.done /\ gout.res.err = "nil" /\ ~gout.res.panic

\* C14: when makeRings succeeds on lines with distinct ids, every arc kept by
\* mergeArcs is part of exactly one ring and of that ring once, every ring is
\* made of such arcs, the rings have the segments of the lines and no more,
\* and the first point of every ring is its last.
C14_ArcsUsedOnce ==
    Succeeded =>
        /\ \A a \in 1..Len(gout.res.arcs) : Cardinality(UsesOf(gout.res.arcs[a].Id)) = 1
        /\ Len(gout.res.used) = Len(gout.res.rings)
        /\ \A r \in 1..Len(gout.res.used) : \A k \in 1..Len(gout.res.used[r]) :
              \E a \in 1..Len(gout.res.arcs) : gout.res.arcs[a].Id = gout.res.used[r][k]
        /\ AllSegments(gout.res.rings) = AllSegments(gin.lines)
        /\ SegmentCount(gout.res.rings) = SegmentCount(gin.lines)
        /\ \A r \in 1..Len(gout.res.rings) : Start(gout.res.rings[r]) = End(gout.res.rings[r])

\* four arcs between two points made two rings of two arcs, the first pair
\* tried having been refused
C14_Witness ==
    /\ Succeeded /\ gin.drawing = FourWays
    /\ Len(gout.res.arcs) = 4 /\ Len(gout.res.rings) = 2
    /\ gin.lines[1].Id = 1 /\ gin.lines[2].Id = 2
    /\ gout.res.used[1] = <<1, 3>>

\* C15: the pieces of one simple closed line, in any order and each in either
\* direction, give exactly one ring; it passes every segment of the line once
\* and its last point is its first (the unit square: 5 points).
C15_OneRingFromCycle ==
    (gout.done /\ gin.drawing \in Cycles) =>
        /\ Succeeded
        /\ Len(gout.res.rings) = 1
        /\ Len(gout.res.rings[1].Points) = 5
        /\ Start(gout.res.rings[1]) = End(gout.res.rings[1])
        /\ Segments(gout.res.rings[1].Points)
              = UNION {Segments(SquareFour[k]) : k \in 1..Len(SquareFour)}
        /\ Cardinality({gout.res.rings[1].Points[i] : i \in 1..4}) = 4

\* the four sides of the square, not in their order around it, the first one
\* handed over against its direction
C15_Witness ==
    /\ gout.done /\ gin.drawing = SquareFour
    /\ gin.lines[1].Id = 3 /\ gin.lines[2].Id = 1
    /\ gin.lines[1].Points = <<<<0, 1>>, <<1, 1>>>>
    /\ Len(gout.res.rings) = 1 /\ Len(gout.res.rings[1].Points) = 5

-----------------------------------------------------------------------------
(* The inclusion trees (the listing of src/README.md). A geos polygon is the *)
(* rectangle <<x1, y1, x2, y2>> its ring goes around; a node is its Id, and  *)
(* the graph gives the Children of every node, in the order of the slice.    *)

\* geos Contains for two such polygons: no point of inner is outside outer
Contains(outer, inner) ==
    /\ outer[1] <= inner[1] /\ inner[3] <= outer[3]
    /\ outer[2] <= inner[2] /\ inner[4] <= outer[4]

NodeIds(geoms) == 0..(Len(geoms) - 1)

\* h after the first loop
computeInclusion_contains(geoms) ==
    [i \in NodeIds(geoms) |-> [j \in NodeIds(geoms) |->
        i # j /\ Contains(geoms[i + 1], geoms[j + 1])]]

\* the second loop kept the pairs it found
computeInclusion_kept(h) == h

\* h after the second loop
computeInclusion_cleared(h) ==
    [i \in DOMAIN h |-> [j \in DOMAIN h |-> h[i][j] /\ ~h[j][i]]]

computeInclusion(geoms) == computeInclusion_cleared(computeInclusion_contains(geoms))

IsChild(row, j) == row[j]

\* the Children of every node, by growing id
makeInclusionGraph(contains) ==
    [i \in DOMAIN contains |->
        SelectSeq([k \in 1..Cardinality(DOMAIN contains) |-> k - 1],
                  LAMBDA j : IsChild(contains[i], j))]

\* the zero Parent and the key that is not in the map
NoParent == [Id |-> 0 - 1, Weight |-> 0]

traverse_parent(parents, c, n, weight) ==
    IF parents[c].Id < 0 \/ parents[c].Weight < weight
    THEN [parents EXCEPT ![c] = [Id |-> n, Weight |-> weight]]
    ELSE parents

\* traverse: s holds parents, seen and the error
RECURSIVE traverse(_, _, _, _)
RECURSIVE traverse_children(_, _, _, _, _)
traverse_child(g, n, weight, cs, s) ==
    IF s.err # "nil" THEN s
    ELSE traverse_children(g, n, weight, Tail(cs), s)

traverse_children(g, n, weight, cs, s) ==
    IF cs = <<>> THEN [s EXCEPT !.seen = @ \ {n}]
    ELSE traverse_child(g, n, weight, cs,
             traverse(g, Head(cs), weight + 1,
                      [s EXCEPT !.parents = traverse_parent(@, Head(cs), n, weight)]))

traverse(g, n, weight, s) ==
    IF n \in s.seen THEN [s EXCEPT !.err = "cycle detected"]
    ELSE traverse_children(g, n, weight, g[n], [s EXCEPT !.seen = @ \cup {n}])

\* filter: the graph after filter(n)
RECURSIVE filter(_, _, _)
RECURSIVE filter_children(_, _, _, _, _)
filter_kept(parents, n, c, kept) ==
    IF parents[c].Id = n THEN Append(kept, c) ELSE kept

filter_children(g, parents, n, cs, kept) ==
    IF cs = <<>> THEN [g EXCEPT ![n] = kept]
    ELSE filter_children(filter(g, parents, Head(cs)), parents, n, Tail(cs),
                         filter_kept(parents, n, Head(cs), kept))

filter(g, parents, n) == filter_children(g, parents, n, g[n], <<>>)

makeInclusionTree_filter(g, root, s) ==
    IF s.err # "nil" THEN [g |-> g, err |-> s.err]
    ELSE [g |-> filter(g, s.parents, root), err |-> "nil"]

\* the graph after the call, and its error
makeInclusionTree(g, root) ==
    makeInclusionTree_filter(g, root,
        traverse(g, root, 0,
                 [parents |-> [i \in DOMAIN g |-> NoParent], seen |-> {}, err |-> "nil"]))

\* children[id] of makeInclusionTrees
IsSomeChild(g, id) == \E n \in DOMAIN g : \E k \in 1..Len(g[n]) : g[n][k] = id

IsSkipped(id, children) == id \in children

\* the loop over the ids; children is the set found before the loop
RECURSIVE makeInclusionTrees_loop(_, _, _, _)
makeInclusionTrees_tree(t, id, children, roots) ==
    IF t.err # "nil" THEN [roots |-> <<>>, g |-> t.g, err |-> t.err]
    ELSE makeInclusionTrees_loop(t.g, id + 1, children, Append(roots, id))

makeInclusionTrees_loop(g, id, children, roots) ==
    IF id \notin DOMAIN g THEN [roots |-> roots, g |-> g, err |-> "nil"]
    ELSE IF IsSkipped(id, children)
    THEN makeInclusionTrees_loop(g, id + 1, children, roots)
    ELSE makeInclusionTrees_tree(makeInclusionTree(g, id), id, children, roots)

\* makeInclusionTrees from the graph on
makeInclusionTrees_graph(g) ==
    makeInclusionTrees_loop(g, 0, {id \in DOMAIN g : IsSomeChild(g, id)}, <<>>)

\* makeInclusionTrees from the matrix on
makeInclusionTrees_matrix(h) == makeInclusionTrees_graph(makeInclusionGraph(h))

makeInclusionTrees(geoms) == makeInclusionTrees_matrix(computeInclusion(geoms))

-----------------------------------------------------------------------------
(* makeInclusionTrees on its own: a few rings out of a small set, the same  *)
(* ring possibly more than once, in any order.                              *)

MaxRings == 4

\* squares inside each other, a square across them and one away from them
RingOuter == <<0, 0, 5, 5>>

RingMiddle == <<1, 1, 4, 4>>

RingInner == <<2, 2, 3, 3>>

RingAcross == <<1, 1, 6, 6>>

RingAway == <<6, 0, 7, 1>>

RingShapes == {RingOuter, RingMiddle, RingInner, RingAcross, RingAway}

RingLists == UNION {[1..n -> RingShapes] : n \in 1..MaxRings}

NoTrees == [done |-> FALSE, h |-> <<>>,
            res |-> [roots |-> <<>>, g |-> <<>>, err |-> "nil"]]

InitTrees ==
    /\ gin \in RingLists
    /\ gout = NoTrees
    /\ IdleExceptGeo

MakeInclusionTreesCall ==
    /\ ~gout.done
    /\ gout' = [done |-> TRUE, h |-> computeInclusion(gin),
                res |-> makeInclusionTrees(gin)]
    /\ UNCHANGED <<gin, exceptGeo>>

NextTrees == MakeInclusionTreesCall

SpecTrees == InitTrees /\ [][NextTrees]_vars

\* C16: in the matrix of computeInclusion no ring contains itself, no two
\* rings contain each other (for two rings of the same shape both entries are
\* false), and every other entry says whether the one contains the other.
C16_MatrixStrict ==
    gout.done =>
        \A i, j \in NodeIds(gin) :
            /\ ~gout.h[i][i]
            /\ ~(gout.h[i][j] /\ gout.h[j][i])
            /\ (i # j /\ Contains(gin[i + 1], gin[j + 1]) /\ Contains(gin[j + 1], gin[i + 1]))
                  => (~gout.h[i][j] /\ ~gout.h[j][i])
            /\ (i # j /\ ~(Contains(gin[i + 1], gin[j + 1]) /\ Contains(gin[j + 1], gin[i + 1])))
                  => (gout.h[i][j] <=> Contains(gin[i + 1], gin[j + 1]))

\* two rings of one shape inside a larger ring
C16_Witness ==
    /\ gout.done /\ Len(gin) = 3
    /\ gin[1] = RingInner /\ gin[2] = RingInner /\ gin[3] = RingOuter
    /\ gout.h[2][0] /\ gout.h[2][1] /\ ~gout.h[0][1] /\ ~gout.h[1][0]

\* the forest returned: the parents of a ring, the roots, what a ring reaches
ParentsOf(c) == {n \in DOMAIN gout.res.g : \E k \in 1..Len(gout.res.g[n]) : gout.res.g[n][k] = c}

RootIds == {gout.res.roots[k] : k \in 1..Len(gout.res.roots)}

RECURSIVE Below(_, _)
Below(n, fuel) ==
    IF fuel = 0 THEN {n}
    ELSE {n} \cup UNION {Below(gout.res.g[n][k], fuel - 1) : k \in 1..Len(gout.res.g[n])}

Returned == gout.done /\ gout.res.err = "nil"

\* ring p contains ring c and no ring lies between them
Innermost(p, c) ==
    /\ gout.h[p][c]
    /\ ~\E m \in DOMAIN gout.h : gout.h[p][m] /\ gout.h[m][c]

\* C17: in the forest returned, every ring that is not a root has exactly one
\* parent, and this parent is its innermost container: it contains the ring
\* and no ring lies between the two, whatever the order of the rings.
C17_InnermostParent ==
    Returned =>
        \A c \in DOMAIN gout.res.g :
            c \notin RootIds =>
                /\ Cardinality(ParentsOf(c)) = 1
                /\ \A p \in ParentsOf(c) : Innermost(p, c)

\* C18: two rings of the same shape are never parent and child; they have the
\* same parents; when a ring contains them they are children of their
\* innermost container, of the ring that contains them when there is one
\* only; when no ring contains them both are roots.
C18_EqualRingsAreSiblings ==
    gout.done =>
        \A i, j \in NodeIds(gin) :
            (i # j /\ gin[i + 1] = gin[j + 1]) =>
                /\ gout.res.err = "nil"
                /\ i \notin ParentsOf(j) /\ j \notin ParentsOf(i)
                /\ ParentsOf(i) = ParentsOf(j)
                /\ \A p \in ParentsOf(i) : Innermost(p, i) /\ Innermost(p, j)
                /\ (\E k \in NodeIds(gin) : gout.h[k][i])
                      => (ParentsOf(i) # {} /\ i \notin RootIds /\ j \notin RootIds)
                /\ \A k \in NodeIds(gin) :
                      (gout.h[k][i] /\ \A m \in NodeIds(gin) : gout.h[m][i] => m = k)
                          => ParentsOf(i) = {k}
                /\ (~\E k \in NodeIds(gin) : gout.h[k][i])
                      => (i \in RootIds /\ j \in RootIds /\ ParentsOf(i) = {})

\* the test: two equal squares and a square around them, which comes last
C18_Witness ==
    /\ gout.done /\ gin = <<RingInner, RingInner, RingOuter>>
    /\ gout.res.roots = <<2>>
    /\ gout.res.g[2] = <<0, 1>> /\ gout.res.g[0] = <<>> /\ gout.res.g[1] = <<>>

\* C19: in the forest returned every ring is there exactly once: it is a root
\* once and has no parent, or it is no root and has one parent; and it is below
\* exactly one root.
C19_TreesDoNotOverlap ==
    Returned =>
        /\ Cardinality(RootIds) = Len(gout.res.roots)
        /\ \A c \in DOMAIN gout.res.g :
              /\ IF c \in RootIds THEN ParentsOf(c) = {}
                 ELSE Cardinality(ParentsOf(c)) = 1
              /\ Cardinality({r \in RootIds : c \in Below(r, Len(gin))}) = 1

-----------------------------------------------------------------------------
(* The trees of a containment matrix written by hand: any matrix over a few *)
(* rings in which no ring contains itself, handed to makeInclusionGraph and *)
(* to the rest of makeInclusionTrees.                                       *)

MaxMatrix == 3

Matrices ==
    UNION {{h \in [0..(n - 1) -> [0..(n - 1) -> BOOLEAN]] : \A i \in 0..(n - 1) : ~h[i][i]} :
              n \in 2..MaxMatrix}

InitMatrix ==
    /\ gin \in Matrices
    /\ gout = NoTrees
    /\ IdleExceptGeo

TreesOfMatrixCall ==
    /\ ~gout.done
    /\ gout' = [done |-> TRUE, h |-> gin, res |-> makeInclusionTrees_matrix(gin)]
    /\ UNCHANGED <<gin, exceptGeo>>

NextMatrix == TreesOfMatrixCall

SpecMatrix == InitMatrix /\ [][NextMatrix]_vars

\* the rings that ring i contains through at most fuel + 1 steps
RECURSIVE Inside(_, _, _)
Inside(h, i, fuel) ==
    IF fuel = 0 THEN {j \in DOMAIN h : h[i][j]}
    ELSE {j \in DOMAIN h : h[i][j]}
            \cup UNION {Inside(h, j, fuel - 1) : j \in {k \in DOMAIN h : h[i][k]}}

HasCycle(h) == \E i \in DOMAIN h : i \in Inside(h, i, Cardinality(DOMAIN h))

-----------------------------------------------------------------------------
(* Claims about the records of a stream                                     *)

\* the last call of Next() read at least one Reset marker before it ended
PassedReset ==
    /\ aux.last = "next" /\ calls # <<>>
    /\ aux.mark.at = Len(calls) - 1 /\ aux.mark.off > 0

NodeFar == <<16, 4, 6, 0, 3, 10>>

\* node: id +2, no version, lon -1, lat +3, declared one byte shorter than it is
NodeShort == <<16, 3, 4, 0, 1, 6>>

NodeChunks == {NodePlain, NodeFar, NodeShort}

SumChunks == NodeChunks \cup {WayChunk, RelChunk, BBoxChunk, ResetChunk}

SpecNodes == InitDecoderOn(Streams(SumChunks, MaxChunks)) /\ [][NextDec]_vars

\* the deltas written in a node dataset
NoDeltas == [Id |-> 0, Lon |-> 0, Lat |-> 0]

DeltasOf(c) ==
    CASE c = NodePlain -> [Id |-> 1, Lon |-> 1, Lat |-> 2]
      [] c = NodeFar -> [Id |-> 3, Lon |-> -2, Lat |-> 5]
      [] c = NodeShort -> [Id |-> 2, Lon |-> -1, Lat |-> 3]
      [] OTHER -> NoDeltas

\* dataset c stands at offset off of the stream
StandsAt(c, off) ==
    /\ off + Len(c) <= Len(rd.data)
    /\ SubSeq(rd.data, off + 1, off + Len(c)) = c

\* the deltas of the node dataset at offset off; none for any other dataset
DeltasAt(off) ==
    IF \E c \in NodeChunks : StandsAt(c, off)
    THEN DeltasOf(CHOOSE c \in NodeChunks : StandsAt(c, off))
    ELSE NoDeltas

\* the sum of the deltas of the datasets read by the calls from + 1 .. to
RECURSIVE SumDeltas(_, _)
SumDeltas(from, to) ==
    IF to <= from THEN NoDeltas
    ELSE [Id  |-> SumDeltas(from, to - 1).Id + DeltasAt(calls[to].off).Id,
          Lon |-> SumDeltas(from, to - 1).Lon + DeltasAt(calls[to].off).Lon,
          Lat |-> SumDeltas(from, to - 1).Lat + DeltasAt(calls[to].off).Lat]

Running(n) == [Id |-> n.Id, Lon |-> n.Lon, Lat |-> n.Lat]

\* C26: the id, longitude and latitude of a decoded node are the sums of the
\* deltas of all the node datasets read since the last Reset (or since the
\* stream was opened); way, relation and bounding box datasets in between
\* leave the three running values as they are.
C26_NodeRunningSums ==
    aux.state = "open" =>
        /\ Running(rd.node) = SumDeltas(aux.mark.at, Len(calls))
        /\ (ret = "true" /\ rd.kind = NodeKind) =>
              Running(calls[Len(calls)].rec.node) = SumDeltas(aux.mark.at, Len(calls))

\* two nodes with a way between them: the second node adds to the first
C26_Witness ==
    /\ Len(calls) = 3 /\ aux.mark.at = 0 /\ ret = "true"
    /\ calls[1].rec.kind = NodeKind /\ calls[2].rec.kind = WayKind
    /\ calls[3].rec.kind = NodeKind
    /\ Running(calls[1].rec.node) = [Id |-> 3, Lon |-> -2, Lat |-> 5]
    /\ Running(calls[3].rec.node) = [Id |-> 4, Lon |-> -1, Lat |-> 7]


\* way: id +1, no version, 1 byte of node references (-4), no tag
WayFar == <<17, 4, 2, 0, 1, 7>>

\* way: id +1, no version, no node reference, no tag
WayEmpty == <<17, 3, 2, 0, 0>>

\* way whose only node reference (+66, two bytes) is longer than the 1 byte
\* declared for the references
WayOver == <<17, 5, 2, 0, 1, 132, 1>>

\* the way of WayChunk, declared one byte shorter than it is
WayShort == <<17, 4, 2, 0, 2, 2, 4>>

WayChunks == {WayChunk, WayFar, WayEmpty, WayOver, WayShort}

SpecWays ==
    InitDecoderOn(Streams(WayChunks \cup {NodePlain, ResetChunk}, MaxChunks))
        /\ [][NextDec]_vars

\* the deltas of the node references written in a way dataset
RefDeltasOf(c) ==
    CASE c = WayChunk -> <<1, 2>>
      [] c = WayShort -> <<1, 2>>
      [] c = WayFar -> <<-4>>
      [] c = WayOver -> <<66>>
      [] OTHER -> <<>>

RefDeltasAt(off) ==
    IF \E c \in WayChunks : StandsAt(c, off)
    THEN RefDeltasOf(CHOOSE c \in WayChunks : StandsAt(c, off))
    ELSE <<>>

\* the ids that the deltas give, counted from base
RECURSIVE RunningIds(_, _)
RunningIds(base, deltas) ==
    IF deltas = <<>> THEN <<>>
    ELSE <<base + Head(deltas)>> \o RunningIds(base + Head(deltas), Tail(deltas))

IsDecodedWay(e) == e.ok /\ e.rec.kind = WayKind

\* the last node id of the last way with nodes that the calls from + 1 .. to
\* decoded; 0 when there is none
RECURSIVE LastWayNode(_, _)
LastWayNode(from, to) ==
    IF to <= from THEN 0
    ELSE IF IsDecodedWay(calls[to]) /\ calls[to].rec.way.Nodes # <<>>
    THEN calls[to].rec.way.Nodes[Len(calls[to].rec.way.Nodes)]
    ELSE LastWayNode(from, to - 1)

\* C27: the node references of the ways are decoded against one running
\* node id shared by all the ways. The nodes of a decoded way are the running
\* sums of its deltas counted from the last node id of the way decoded before
\* it; the counter is 0 after a Reset (and at the start), it is the last node
\* id of the last decoded way otherwise, and a way whose decoding fails,
\* like any other dataset, leaves it as it was.
C27_SharedWayCounter ==
    aux.state = "open" =>
        /\ rd.nodeId = LastWayNode(aux.mark.at, Len(calls))
        /\ (ret = "true" /\ rd.kind = WayKind) =>
              calls[Len(calls)].rec.way.Nodes =
                  RunningIds(LastWayNode(aux.mark.at, Len(calls) - 1),
                             RefDeltasAt(calls[Len(calls)].off))

\* a way, a way that fails after its reference was read, then a way that
\* counts from the last node of the first
C27_Witness ==
    /\ Len(calls) = 3 /\ aux.mark.at = 0 /\ ret = "true"
    /\ IsDecodedWay(calls[1]) /\ calls[1].rec.way.Nodes = <<1, 3>>
    /\ ~calls[2].ok /\ calls[2].err = "overread" /\ StandsAt(WayOver, calls[2].off)
    /\ calls[3].rec.way.Nodes = <<-1>>


\* relation: id +1, no version, 13 bytes of references: +2 "0" (node, no
\* role), +3 "2x" (relation, role x), -1 "1" (way, no role)
RelMixed == <<18, 16, 2, 0, 13, 4, 0, 48, 0, 6, 0, 50, 120, 0, 1, 0, 49, 0>>

\* relation whose reference string is "3r"
RelBadType == <<18, 8, 2, 0, 5, 2, 0, 51, 114, 0>>

\* relation whose reference string is empty
RelEmptyRef == <<18, 6, 2, 0, 3, 2, 0, 0>>

\* relation with the reference +5 "0" and then the reference +1 "3"
RelPartial == <<18, 11, 2, 0, 8, 10, 0, 48, 0, 2, 0, 51, 0>>

RelChunks == {RelChunk, RelMixed, RelBadType, RelEmptyRef, RelPartial}

SpecRels ==
    InitDecoderOn(Streams(RelChunks \cup {WayChunk, ResetChunk}, MaxChunks))
        /\ [][NextDec]_vars

\* the references written in a relation dataset before its first invalid
\* one: delta, type, role
RefsWritten(c) ==
    CASE c = RelChunk -> <<[d |-> 1, typ |-> 1, role |-> <<114>>]>>
      [] c = RelMixed -> <<[d |-> 2, typ |-> 0, role |-> <<>>],
                           [d |-> 3, typ |-> 2, role |-> <<120>>],
                           [d |-> -1, typ |-> 1, role |-> <<>>]>>
      [] c = RelPartial -> <<[d |-> 5, typ |-> 0, role |-> <<>>]>>
      [] OTHER -> <<>>

\* the error that the first invalid reference of a relation dataset must give
RefErrorOf(c) ==
    CASE c = RelBadType -> "invalid reference type"
      [] c = RelPartial -> "invalid reference type"
      [] c = RelEmptyRef -> "invalid ref string"
      [] OTHER -> "nil"

RelChunkAt(off) ==
    IF \E c \in RelChunks : StandsAt(c, off)
    THEN CHOOSE c \in RelChunks : StandsAt(c, off)
    ELSE <<>>

\* the three counters after the references ws, counted from ids
RECURSIVE CountRefs(_, _)
CountRefs(ids, ws) ==
    IF ws = <<>> THEN ids
    ELSE CountRefs([ids EXCEPT ![Head(ws).typ + 1] = @ + Head(ws).d], Tail(ws))

\* the references that ws decode to, counted from ids
RECURSIVE DecodedRefs(_, _)
DecodedRefs(ids, ws) ==
    IF ws = <<>> THEN <<>>
    ELSE <<[Id   |-> ids[Head(ws).typ + 1] + Head(ws).d,
            Type |-> Head(ws).typ,
            Role |-> Head(ws).role]>>
            \o DecodedRefs(CountRefs(ids, <<Head(ws)>>), Tail(ws))

\* the three counters after the datasets read by the calls from + 1 .. to
RECURSIVE RefCounters(_, _)
RefCounters(from, to) ==
    IF to <= from THEN <<0, 0, 0>>
    ELSE CountRefs(RefCounters(from, to - 1), RefsWritten(RelChunkAt(calls[to].off)))

\* C28: the references of the relations run on three counters, one for each
\* type, chosen by the first character of the reference string ("0" node,
\* "1" way, "2" relation). A reference adds its delta to the counter of its
\* type and to no other, the counters go on from one relation to the next
\* until a Reset, the role is the string after its first character, and an
\* empty string or another first character makes the record fail with an
\* error about the invalid reference.
C28_ThreeRefCounters ==
    (aux.state = "open" /\ calls # <<>>) =>
        /\ rd.refIds = RefCounters(aux.mark.at, Len(calls))
        /\ (ret = "true" /\ rd.kind = RelationKind) =>
              /\ RefErrorOf(RelChunkAt(calls[Len(calls)].off)) = "nil"
              /\ calls[Len(calls)].rec.relation.Refs =
                    DecodedRefs(RefCounters(aux.mark.at, Len(calls) - 1),
                                RefsWritten(RelChunkAt(calls[Len(calls)].off)))
        /\ (aux.last = "next"
                /\ RefErrorOf(RelChunkAt(calls[Len(calls)].off)) # "nil") =>
              /\ ret = "false"
              /\ rd.err = RefErrorOf(RelChunkAt(calls[Len(calls)].off))

\* two relations with references of the three types: the way reference of
\* the second goes on from the way reference of the first
C28_Witness ==
    /\ Len(calls) = 2 /\ aux.mark.at = 0 /\ ret = "true"
    /\ calls[1].rec.relation.Refs = <<[Id |-> 1, Type |-> 1, Role |-> <<114>>]>>
    /\ calls[2].rec.relation.Refs =
          <<[Id |-> 2, Type |-> 0, Role |-> <<>>],
            [Id |-> 3, Type |-> 2, Role |-> <<120>>],
            [Id |-> 0, Type |-> 1, Role |-> <<>>]>>
    /\ rd.refIds = <<2, 0, 3>>


\* node: id +1, version 1, timestamp +5, changeset +2, uid "u", author "a",
\* lon +1, lat +2
NodeV1 == <<16, 11, 2, 1, 10, 4, 0, 117, 0, 97, 0, 2, 4>>

\* node: id +1, version 2, timestamp -5 and nothing more of the metadata,
\* lon +1, lat +2
NodeV2 == <<16, 5, 2, 2, 9, 2, 4>>

\* node: id +1, version 3, timestamp +0 and nothing more of the metadata
NodeV3 == <<16, 5, 2, 3, 0, 2, 4>>

\* node: id +1, version 4, timestamp +1, changeset -1, uid "x", author "y"
NodeV4 == <<16, 11, 2, 4, 2, 1, 0, 120, 0, 121, 0, 2, 4>>

MetaChunks == {NodePlain, NodeV1, NodeV2, NodeV3, NodeV4}

SpecMeta ==
    InitDecoderOn(Streams(MetaChunks \cup {WayChunk, ResetChunk}, MaxChunks))
        /\ [][NextDec]_vars

\* the metadata written in a node dataset: the version, the timestamp delta
\* and, when they are written, the changeset delta, uid and author
MetaOf(c) ==
    CASE c = NodeV1 -> [v |-> 1, ts |-> 5, more |-> TRUE, cs |-> 2,
                        uid |-> <<117>>, author |-> <<97>>]
      [] c = NodeV2 -> [v |-> 2, ts |-> -5, more |-> FALSE, cs |-> 0,
                        uid |-> <<>>, author |-> <<>>]
      [] c = NodeV3 -> [v |-> 3, ts |-> 0, more |-> FALSE, cs |-> 0,
                        uid |-> <<>>, author |-> <<>>]
      [] c = NodeV4 -> [v |-> 4, ts |-> 1, more |-> TRUE, cs |-> -1,
                        uid |-> <<120>>, author |-> <<121>>]
      [] OTHER -> [v |-> 0, ts |-> 0, more |-> FALSE, cs |-> 0,
                   uid |-> <<>>, author |-> <<>>]

\* the version rule: the metadata after w was read over prev
MetaRule(prev, w) ==
    IF w.v = 0 THEN ZeroMeta
    ELSE IF prev.Timestamp + w.ts # 0
    THEN [Version |-> w.v, Timestamp |-> prev.Timestamp + w.ts,
          Changeset |-> prev.Changeset + w.cs, Uid |-> w.uid, Author |-> w.author]
    ELSE [Version |-> w.v, Timestamp |-> 0,
          Changeset |-> prev.Changeset, Uid |-> prev.Uid, Author |-> prev.Author]

\* this step is a call of Next() that returned a node written as one of the
\* node datasets above
DecodesMetaChunk ==
    /\ Len(calls') = Len(calls) + 1
    /\ ret' = "true" /\ rd'.kind = NodeKind
    /\ \E c \in MetaChunks : StandsAt(c, calls'[Len(calls')].off)

\* the dataset that the call of this step read
MetaChunkRead == CHOOSE c \in MetaChunks : StandsAt(c, calls'[Len(calls')].off)

\* the metadata of the nodes before the dataset of this step was read
MetaBefore == IF aux'.mark.at = Len(calls) THEN ZeroMeta ELSE rd.node.Meta

\* C29 as amended: version 0 puts version, timestamp, changeset, uid and
\* author back to their defaults and reads no more metadata; another version
\* is stored as it is and the signed delta that follows is added to the
\* running timestamp; the changeset delta and the (uid, author) pair are read
\* exactly when the timestamp that results is not zero; when it is zero,
\* changeset, uid and author stay what they were before the record.
C29_MetaVersionRule ==
    [][DecodesMetaChunk =>
          /\ rd'.node.Meta = MetaRule(MetaBefore, MetaOf(MetaChunkRead))
          /\ MetaOf(MetaChunkRead).more
                <=> (MetaOf(MetaChunkRead).v # 0 /\ rd'.node.Meta.Timestamp # 0)]_vars

\* a node of version 1 with timestamp 5, changeset 2, "u", "a", then a node of
\* version 2 that brings the timestamp to 0 and keeps changeset 2, "u", "a"
C29_Witness ==
    /\ Len(calls) = 2 /\ aux.mark.at = 0 /\ ret = "true"
    /\ calls[1].rec.node.Meta =
          [Version |-> 1, Timestamp |-> 5, Changeset |-> 2, Uid |-> <<117>>,
           Author |-> <<97>>]
    /\ calls[2].rec.node.Meta =
          [Version |-> 2, Timestamp |-> 0, Changeset |-> 2, Uid |-> <<117>>,
           Author |-> <<97>>]

\* C29 as stated: the same rule, and when the timestamp that results is
\* zero, changeset, uid and author are at their reset values.
C29_ZeroTimestampMeansReset ==
    [][DecodesMetaChunk =>
          /\ rd'.node.Meta = MetaRule(MetaBefore, MetaOf(MetaChunkRead))
          /\ MetaOf(MetaChunkRead).more
                <=> (MetaOf(MetaChunkRead).v # 0 /\ rd'.node.Meta.Timestamp # 0)
          /\ rd'.node.Meta.Timestamp = 0 =>
                /\ rd'.node.Meta.Changeset = 0
                /\ rd'.node.Meta.Uid = <<>>
                /\ rd'.node.Meta.Author = <<>>]_vars


-----------------------------------------------------------------------------
(* RingParts under any sequence of Push and Pop                             *)

MaxOps == 4

\* the lines between three points, in both directions, a line through the
\* three of them, and a line that comes back to its start
PartLines ==
    {[Id |-> 1, Role |-> <<>>, Points |-> <<<<0, 0>>, <<1, 0>>>>],
     [Id |-> 2, Role |-> <<>>, Points |-> <<<<1, 0>>, <<0, 0>>>>],
     [Id |-> 3, Role |-> <<>>, Points |-> <<<<1, 0>>, <<1, 1>>>>],
     [Id |-> 4, Role |-> <<>>, Points |-> <<<<1, 1>>, <<1, 0>>>>],
     [Id |-> 5, Role |-> <<>>, Points |-> <<<<1, 1>>, <<0, 0>>>>],
     [Id |-> 6, Role |-> <<>>, Points |-> <<<<0, 0>>, <<1, 1>>>>],
     [Id |-> 7, Role |-> <<>>, Points |-> <<<<0, 0>>, <<1, 0>>, <<1, 1>>>>],
     [Id |-> 8, Role |-> <<>>, Points |-> <<<<1, 1>>, <<0, 1>>, <<1, 1>>>>]}

\* RingParts{parts: []*Linestring{line}, start: line.Start(), end: line.End()}
InitParts ==
    /\ gin \in PartLines
    /\ gout = [r |-> NewRingParts(gin), panic |-> FALSE, hist |-> <<>>]
    /\ IdleExceptGeo

\* parts.Push(p); hist keeps the call and the RingParts it was made on
PartsPushCall ==
    /\ ~gout.panic /\ Len(gout.hist) < MaxOps
    /\ \E p \in PartLines :
          gout' = [r     |-> RingParts_Push(gout.r, p).r,
                   panic |-> RingParts_Push(gout.r, p).panic,
                   hist  |-> Append(gout.hist, [op |-> "push", line |-> p,
                                                before |-> gout.r])]
    /\ UNCHANGED <<gin, exceptGeo>>

\* parts.Pop(); on an empty set r.parts[end] panics
PartsPopCall ==
    /\ ~gout.panic /\ Len(gout.hist) < MaxOps
    /\ gout' = [r     |-> IF gout.r.parts = <<>> THEN gout.r ELSE RingParts_Pop(gout.r),
                panic |-> gout.r.parts = <<>>,
                hist  |-> Append(gout.hist, [op |-> "pop", line |-> NoLine,
                                             before |-> gout.r])]
    /\ UNCHANGED <<gin, exceptGeo>>

NextParts == PartsPushCall \/ PartsPopCall

SpecParts == InitParts /\ [][NextParts]_vars

\* the parts of r follow one another from Start() to End()
Linked(r) ==
    /\ r.start = Start(r.parts[1])
    /\ r.end = End(r.parts[Len(r.parts)])
    /\ \A i \in 1..(Len(r.parts) - 1) : End(r.parts[i]) = Start(r.parts[i + 1])

\* C30: after any sequence of Push and Pop that leaves at least one part,
\* End() is the end of the last part, Start() is the start of the first part
\* and every part ends where the next one starts; Push panics exactly when
\* neither end of the pushed line is the current End(); a Pop after a Push
\* gives back the End() and the list of parts from before the Push.
C30_RingPartsLinked ==
    /\ (~gout.panic /\ gout.r.parts # <<>>) => Linked(gout.r)
    /\ \A i \in DOMAIN gout.hist :
          gout.hist[i].op = "push" =>
              ((i = Len(gout.hist) /\ gout.panic)
                  <=> (Start(gout.hist[i].line) # gout.hist[i].before.end
                         /\ End(gout.hist[i].line) # gout.hist[i].before.end))
    /\ \A i \in 2..Len(gout.hist) :
          (gout.hist[i].op = "pop" /\ gout.hist[i - 1].op = "push") =>
              LET after == IF i = Len(gout.hist) THEN gout.r ELSE gout.hist[i + 1].before
              IN  /\ after.end = gout.hist[i - 1].before.end
                  /\ after.parts = gout.hist[i - 1].before.parts

\* a line pushed by its end was turned, a second one was pushed and popped
C30_Witness ==
    /\ ~gout.panic /\ Len(gout.hist) = 3
    /\ gin.Id = 1
    /\ gout.hist[1].op = "push" /\ gout.hist[1].line.Id = 4
    /\ gout.hist[2].op = "push" /\ gout.hist[3].op = "pop"
    /\ Len(gout.r.parts) = 2
    /\ gout.r.parts[2].Points = <<<<1, 0>>, <<1, 1>>>>
    /\ gout.r.end = <<1, 1>>


-----------------------------------------------------------------------------
(* treesToPolygons (the listing of src/README.md): the stack of roots, one  *)
(* turn of its loop at a time. A polygon is the node of its outer ring and  *)
(* the nodes of its inner rings; createGeosPolygon is taken to succeed.     *)

MaxNodes == 4

\* the children of the children cs, in the order the two loops meet them
RECURSIVE treesToPolygons_grandchildren(_, _)
treesToPolygons_grandchildren(g, cs) ==
    IF cs = <<>> THEN <<>>
    ELSE g[Head(cs)] \o treesToPolygons_grandchildren(g, Tail(cs))

treesToPolygons_children(g, cs) == cs

\* what the inner loops append to roots for the children cs of the root
treesToPolygons_pushed(g, cs) == treesToPolygons_grandchildren(g, cs)

\* one turn of the loop: the last root is taken off the stack
treesToPolygons_turn(g, roots, polygons) ==
    [roots    |-> SubSeq(roots, 1, Len(roots) - 1)
                      \o treesToPolygons_pushed(g, g[roots[Len(roots)]]),
     polygons |-> Append(polygons, [outer  |-> roots[Len(roots)],
                                    inners |-> g[roots[Len(roots)]]])]

\* every node comes to a root by going from parent to parent
RECURSIVE ReachesRoot(_, _, _)
ReachesRoot(par, i, fuel) ==
    \/ par[i] < 0
    \/ fuel > 0 /\ ReachesRoot(par, par[i], fuel - 1)

\* the forests of n nodes, each given by the parent of every node (-1: none)
Forests(n) ==
    {par \in [0..(n - 1) -> (0 - 1)..(n - 1)] :
        \A i \in 0..(n - 1) : ReachesRoot(par, i, n)}

\* the nodes for which keep holds, by growing id
IdsWhere(par, keep(_)) ==
    SelectSeq([k \in 1..Cardinality(DOMAIN par) |-> k - 1], keep)

\* the forest as makeInclusionTrees gives it: the Children of every node
ForestGraph(par) == [i \in DOMAIN par |-> IdsWhere(par, LAMBDA j : par[j] = i)]

ForestRoots(par) == IdsWhere(par, LAMBDA j : par[j] < 0)

InitPolys ==
    /\ gin \in UNION {Forests(n) : n \in 0..MaxNodes}
    /\ gout = [roots |-> ForestRoots(gin), polygons |-> <<>>, returned |-> FALSE]
    /\ IdleExceptGeo

\* for len(roots) > 0 { ... }
TreesToPolygonsTurn ==
    /\ ~gout.returned /\ gout.roots # <<>>
    /\ gout' = [roots    |-> treesToPolygons_turn(ForestGraph(gin), gout.roots,
                                                  gout.polygons).roots,
                polygons |-> treesToPolygons_turn(ForestGraph(gin), gout.roots,
                                                  gout.polygons).polygons,
                returned |-> FALSE]
    /\ UNCHANGED <<gin, exceptGeo>>

\* return polygons, nil
TreesToPolygonsReturn ==
    /\ ~gout.returned /\ gout.roots = <<>>
    /\ gout' = [gout EXCEPT !.returned = TRUE]
    /\ UNCHANGED <<gin, exceptGeo>>

NextPolys == TreesToPolygonsTurn \/ TreesToPolygonsReturn

\* the loop is run until it ends
SpecPolys == InitPolys /\ [][NextPolys]_vars /\ WF_vars(NextPolys)

RECURSIVE Depth(_, _)
Depth(par, i) == IF par[i] < 0 THEN 0 ELSE 1 + Depth(par, par[i])

EvenNodes(par) == {i \in DOMAIN par : Depth(par, i) % 2 = 0}

\* C21: for any finite forest treesToPolygons ends, with its stack empty,
\* and has then made exactly one polygon for every node at even depth
\* (roots, grandchildren, ...): its outer ring is the node, its holes are
\* the children of the node, all of them and nothing else; no polygon is ever
\* made for a node at odd depth.
C21_EvenDepthPolygons ==
    /\ [](\A k \in DOMAIN gout.polygons :
             /\ gout.polygons[k].outer \in EvenNodes(gin)
             /\ gout.polygons[k].inners = ForestGraph(gin)[gout.polygons[k].outer]
             /\ \A m \in DOMAIN gout.polygons :
                   gout.polygons[m].outer = gout.polygons[k].outer => m = k)
    /\ [](gout.returned =>
             /\ gout.roots = <<>>
             /\ {gout.polygons[k].outer : k \in DOMAIN gout.polygons} = EvenNodes(gin))
    /\ <>(gout.returned)

\* a chain of four rings: polygons for the root and for its grandchild, each
\* with its one child as hole
C21_Witness ==
    /\ gout.returned
    /\ DOMAIN gin = 0..3 /\ gin[2] = 0 - 1 /\ gin[0] = 2 /\ gin[3] = 0 /\ gin[1] = 3
    /\ gout.polygons = <<[outer |-> 2, inners |-> <<0>>], [outer |-> 3, inners |-> <<1>>]>>


-----------------------------------------------------------------------------
(* The centroid of a location (src/centroid.go). Coordinates are whole      *)
(* numbers; a computed point is the fraction pair (x / d, y / d), so that   *)
(* the divisions of the source are exact. A geos polygon is the list of its *)
(* rings, the outer one first; geos itself is outside the source: its       *)
(* NewPolygon takes rings of no point or of at least four with the first    *)
(* repeated at the end, Area is the area of the outer ring less the areas   *)
(* of the inner rings, and Contains holds for the points of the interior.   *)

NilGeometry == [isNil |-> TRUE, rings |-> <<>>]

\* geos: the coordinates make a linear ring
IsLinearRing(ring) == ring = <<>> \/ (Len(ring) >= 4 /\ ring[1] = ring[Len(ring)])

\* geos.NewPolygon(rings[0], rings[1:]...) succeeds
NewPolygon_ok(rings) == \A k \in 1..Len(rings) : IsLinearRing(rings[k])

RECURSIVE makeGeometries_loop(_, _)
makeGeometries_loop(polys, geoms) ==
    IF polys = <<>> THEN [geoms |-> geoms, err |-> "nil"]
    ELSE IF Head(polys) = <<>>
    THEN makeGeometries_loop(Tail(polys), Append(geoms, NilGeometry))
    ELSE IF ~NewPolygon_ok(Head(polys)) THEN [geoms |-> <<>>, err |-> "geos"]
    ELSE makeGeometries_loop(Tail(polys),
                             Append(geoms, [isNil |-> FALSE, rings |-> Head(polys)]))

makeGeometriesFromLocation(loc) ==
    IF loc.Type # "multipolygon"
    THEN [geoms |-> <<>>, err |-> "unsupported location type"]
    ELSE makeGeometries_loop(loc.Coordinates, <<>>)

\* (ai, bi) for the vertex i of a ring of ringLen vertices, counted from 0
getNeighbourVertices(ringLen, i) ==
    [ai |-> IF i > 0 THEN i - 1 ELSE ringLen - 1,
     bi |-> IF i < ringLen - 1 THEN i + 1 ELSE 0]

\* crossp of findConvexVertex for the vertex v and its neighbours a, b
crossp(a, v, b) == (a[1] - v[1]) * (b[2] - v[2]) - (a[2] - v[2]) * (b[1] - v[1])

RECURSIVE findConvexVertex_loop(_, _)
findConvexVertex_loop(ring, i) ==
    IF i >= Len(ring) THEN 0 - 1
    ELSE IF crossp(ring[getNeighbourVertices(Len(ring), i).ai + 1], ring[i + 1],
                   ring[getNeighbourVertices(Len(ring), i).bi + 1]) >= 0
    THEN i
    ELSE findConvexVertex_loop(ring, i + 1)

findConvexVertex(ring) == findConvexVertex_loop(ring, 0)

\* 0 <= n / d <= 1, which is false when d is 0 (the quotient is then
\* infinite or not a number)
InUnit(n, d) ==
    IF d > 0 THEN 0 <= n /\ n <= d
    ELSE IF d < 0 THEN d <= n /\ n <= 0
    ELSE FALSE

\* x and y are nx / d and ny / d, z is 1 - x - y
isInTriangle_tests(d, nx, ny) ==
    InUnit(nx, d) /\ InUnit(ny, d) /\ InUnit(d - nx - ny, d)

isInTriangle(a, v, b, q) ==
    isInTriangle_tests(
        (v[2] - b[2]) * (a[1] - b[1]) + (b[1] - v[1]) * (a[2] - b[2]),
        (v[2] - b[2]) * (q[1] - b[1]) + (b[1] - v[1]) * (q[2] - b[2]),
        (b[2] - a[2]) * (q[1] - b[1]) + (a[1] - b[1]) * (q[2] - b[2]))

RECURSIVE SumOf(_, _)
SumOf(ring, k) == IF ring = <<>> THEN 0 ELSE Head(ring)[k] + SumOf(Tail(ring), k)

computeBarycenter(ring) == [x |-> SumOf(ring, 1), y |-> SumOf(ring, 2), d |-> Len(ring)]

SquaredDistance(v, q) ==
    (v[1] - q[1]) * (v[1] - q[1]) + (v[2] - q[2]) * (v[2] - q[2])

\* the loop that looks for the vertex q of the shortest diagonal to v
RECURSIVE computeSimplePolygonCentroid_loop(_, _, _, _, _)
computeSimplePolygonCentroid_loop(ring, vi, i, qDist, qIndex) ==
    IF i >= Len(ring) THEN qIndex
    ELSE IF i \in {getNeighbourVertices(Len(ring), vi).ai, vi,
                   getNeighbourVertices(Len(ring), vi).bi}
    THEN computeSimplePolygonCentroid_loop(ring, vi, i + 1, qDist, qIndex)
    ELSE IF ~isInTriangle(ring[getNeighbourVertices(Len(ring), vi).ai + 1], ring[vi + 1],
                          ring[getNeighbourVertices(Len(ring), vi).bi + 1], ring[i + 1])
    THEN computeSimplePolygonCentroid_loop(ring, vi, i + 1, qDist, qIndex)
    ELSE IF qDist < 0 \/ SquaredDistance(ring[vi + 1], ring[i + 1]) < qDist
    THEN computeSimplePolygonCentroid_loop(ring, vi, i + 1,
                                           SquaredDistance(ring[vi + 1], ring[i + 1]), i)
    ELSE computeSimplePolygonCentroid_loop(ring, vi, i + 1, qDist, qIndex)

NoCentroid == [x |-> 0, y |-> 0, d |-> 1]

\* the barycenter of a convex ring, else the middle of the diagonal (v, q)
computeSimplePolygonCentroid_point(ring, vi, qIndex) ==
    IF qIndex < 0 THEN computeBarycenter(ring)
    ELSE [x |-> ring[vi + 1][1] + ring[qIndex + 1][1],
          y |-> ring[vi + 1][2] + ring[qIndex + 1][2],
          d |-> 2]

computeSimplePolygonCentroid_at(ring, vi) ==
    IF vi < 0 THEN [c |-> NoCentroid, err |-> "cannot find convex vertex"]
    ELSE [c   |-> computeSimplePolygonCentroid_point(ring, vi,
                      computeSimplePolygonCentroid_loop(ring, vi, 0, 0 - 1, 0 - 1)),
          err |-> "nil"]

computeSimplePolygonCentroid(ring) ==
    computeSimplePolygonCentroid_at(ring, findConvexVertex(ring))

\* geos: twice the area that a ring goes around
RECURSIVE Shoelace(_)
Shoelace(ring) ==
    IF Len(ring) < 2 THEN 0
    ELSE ring[1][1] * ring[2][2] - ring[2][1] * ring[1][2] + Shoelace(Tail(ring))

RingArea(ring) == IF Shoelace(ring) < 0 THEN 0 - Shoelace(ring) ELSE Shoelace(ring)

RECURSIVE HolesArea(_)
HolesArea(rings) == IF rings = <<>> THEN 0 ELSE RingArea(Head(rings)) + HolesArea(Tail(rings))

\* geos Area (twice it, which orders the polygons in the same way)
Area(rings) == RingArea(rings[1]) - HolesArea(Tail(rings))

\* the vertex k of a ring, on the grid on which the point c has whole coordinates
Scaled(ring, k, c) == <<ring[k][1] * c.d, ring[k][2] * c.d>>

\* geos: c lies on the ring
OnRing(ring, c) ==
    \E k \in 1..(Len(ring) - 1) :
        OnSegment(Scaled(ring, k, c), Scaled(ring, k + 1, c), <<c.x, c.y>>)

\* the side k of the ring is met by the half-line that leaves c to the right
CrossedAt(ring, k, c) ==
    /\ (ring[k][2] * c.d > c.y) # (ring[k + 1][2] * c.d > c.y)
    /\ IF ring[k + 1][2] > ring[k][2]
       THEN Cross(Scaled(ring, k, c), Scaled(ring, k + 1, c), <<c.x, c.y>>) > 0
       ELSE Cross(Scaled(ring, k, c), Scaled(ring, k + 1, c), <<c.x, c.y>>) < 0

\* geos: c lies in the area that the ring goes around
InRing(ring, c) ==
    Cardinality({k \in 1..(Len(ring) - 1) : CrossedAt(ring, k, c)}) % 2 = 1

\* geos Contains for a polygon and a point
PolygonContains(rings, c) ==
    /\ rings # <<>>
    /\ InRing(rings[1], c) /\ ~OnRing(rings[1], c)
    /\ \A k \in 2..Len(rings) : ~InRing(rings[k], c) /\ ~OnRing(rings[k], c)

isCentroidInPolygon(c, poly) == PolygonContains(poly.rings, c)

\* the outcome of computeCentroid: found is false for a nil centroid
Outcome(c, found, err, panic) == [c |-> c, found |-> found, err |-> err, panic |-> panic]

computeCentroid_unchecked(c, poly) == Outcome(c.c, TRUE, "nil", FALSE)

\* the second attempt: the point of computeSimplePolygonCentroid, if inside
computeCentroid_checked(c, poly) ==
    IF c.err # "nil" THEN Outcome(NoCentroid, FALSE, c.err, FALSE)
    ELSE IF ~isCentroidInPolygon(c.c, poly) THEN Outcome(NoCentroid, FALSE, "nil", FALSE)
    ELSE Outcome(c.c, TRUE, "nil", FALSE)

computeCentroid_second(center, outer, poly) ==
    computeCentroid_checked(computeSimplePolygonCentroid(Tail(outer)), poly)

\* the cheap attempt with the barycenter
computeCentroid_cheap(center, outer, poly) ==
    IF isCentroidInPolygon(center, poly) THEN Outcome(center, TRUE, "nil", FALSE)
    ELSE computeCentroid_second(center, outer, poly)

\* outer[1:] of an outer ring without points panics
computeCentroid_outer(outer, poly) ==
    IF outer = <<>> THEN Outcome(NoCentroid, FALSE, "nil", TRUE)
    ELSE computeCentroid_cheap(computeBarycenter(Tail(outer)), outer, poly)

computeCentroid_selected(loc, polygons, maxPoly) ==
    IF maxPoly < 0 THEN Outcome(NoCentroid, FALSE, "nil", FALSE)
    ELSE IF Len(loc.Coordinates[maxPoly + 1]) <= 0
    THEN Outcome(NoCentroid, FALSE, "invalid empty polygon", FALSE)
    ELSE computeCentroid_outer(loc.Coordinates[maxPoly + 1][1], polygons[maxPoly + 1])

\* the loop that finds the largest polygon; onNil is what Area() does on the
\* nil geometry of a polygon without rings: "panic" or "error"
RECURSIVE computeCentroid_largest(_, _, _, _, _, _)
computeCentroid_largest(loc, polygons, i, maxArea, maxPoly, onNil) ==
    IF i >= Len(polygons) THEN computeCentroid_selected(loc, polygons, maxPoly)
    ELSE IF polygons[i + 1].isNil
    THEN Outcome(NoCentroid, FALSE, IF onNil = "error" THEN "geos" ELSE "nil",
                 onNil = "panic")
    ELSE IF Area(polygons[i + 1].rings) > maxArea
    THEN computeCentroid_largest(loc, polygons, i + 1, Area(polygons[i + 1].rings), i, onNil)
    ELSE computeCentroid_largest(loc, polygons, i + 1, maxArea, maxPoly, onNil)

computeCentroid_geometries(loc, g, onNil) ==
    IF g.err # "nil" THEN Outcome(NoCentroid, FALSE, g.err, FALSE)
    ELSE computeCentroid_largest(loc, g.geoms, 0, 0, 0 - 1, onNil)

computeCentroid(loc, onNil) ==
    computeCentroid_geometries(loc, makeGeometriesFromLocation(loc), onNil)

-----------------------------------------------------------------------------
(* computeCentroid on its own: locations of a few polygons out of a small   *)
(* set.                                                                     *)

MaxPolygons == 2

\* the three locations of TestComputeCentroid
UnitSquare == << <<<<0, 0>>, <<0, 1>>, <<1, 1>>, <<1, 0>>, <<0, 0>>>> >>

Horseshoe ==
    << <<<<0, 0>>, <<3, 0>>, <<3, 3>>, <<3, 2>>, <<1, 2>>, <<1, 1>>, <<3, 1>>, <<3, 0>>,
         <<0, 0>>>> >>

HoledSquare ==
    << <<<<0, 0>>, <<0, 3>>, <<3, 3>>, <<3, 0>>, <<0, 0>>>>,
       <<<<1, 1>>, <<2, 1>>, <<2, 2>>, <<1, 2>>, <<1, 1>>>> >>

\* a clockwise ring whose barycenter is outside and whose vertex (1, 3) lies
\* in the triangle of the convex vertex (0, 4)
Dart == << <<<<0, 0>>, <<0, 4>>, <<4, 4>>, <<1, 3>>, <<0, 0>>>> >>

\* a clockwise ring whose barycenter (1.5, 2.75) is inside, while its vertex
\* (2, 3) lies in the triangle of the convex vertex (0, 4)
Arrowhead == << <<<<0, 0>>, <<0, 4>>, <<4, 4>>, <<2, 3>>, <<0, 0>>>> >>

\* HoledSquare with its outer ring counter-clockwise
HoledSquareTurned ==
    << <<<<0, 0>>, <<3, 0>>, <<3, 3>>, <<0, 3>>, <<0, 0>>>>,
       <<<<1, 1>>, <<2, 1>>, <<2, 2>>, <<1, 2>>, <<1, 1>>>> >>

\* a polygon without rings, one whose ring is not closed, one whose ring has
\* no point
NoRingPolygon == <<>>

OpenRingPolygon == << <<<<0, 0>>, <<0, 1>>, <<1, 1>>, <<1, 0>>>> >>

NoPointPolygon == << <<>> >>

PolygonShapes ==
    {UnitSquare, Horseshoe, HoledSquare, Dart, Arrowhead, HoledSquareTurned,
     NoRingPolygon, OpenRingPolygon, NoPointPolygon}

LocationTypes == {"multipolygon", "polygon"}

Locations ==
    {[Type |-> t, Coordinates |-> cs] :
        t \in LocationTypes,
        cs \in UNION {[1..n -> PolygonShapes] : n \in 0..MaxPolygons}}

InitCentroid ==
    /\ gin \in Locations
    /\ gout = [done |-> FALSE, res |-> Outcome(NoCentroid, FALSE, "nil", FALSE)]
    /\ IdleExceptGeo

\* computeCentroid(loc)
ComputeCentroidCall ==
    /\ ~gout.done
    /\ \E onNil \in {"panic", "error"} :
          gout' = [done |-> TRUE, res |-> computeCentroid(gin, onNil)]
    /\ UNCHANGED <<gin, exceptGeo>>

NextCentroid == ComputeCentroidCall

SpecCentroid == InitCentroid /\ [][NextCentroid]_vars

\* every polygon of the location has rings and geos takes them
WellFormed(loc) ==
    /\ loc.Type = "multipolygon"
    /\ \A k \in 1..Len(loc.Coordinates) :
          loc.Coordinates[k] # <<>> /\ NewPolygon_ok(loc.Coordinates[k])

\* polygon k is the first of the largest polygons, and has some area
IsSelected(loc, k) ==
    /\ Area(loc.Coordinates[k]) > 0
    /\ \A j \in 1..Len(loc.Coordinates) :
          /\ Area(loc.Coordinates[j]) <= Area(loc.Coordinates[k])
          /\ j < k => Area(loc.Coordinates[j]) < Area(loc.Coordinates[k])

HasSelected(loc) == WellFormed(loc) /\ \E k \in 1..Len(loc.Coordinates) : IsSelected(loc, k)

Selected(loc) ==
    loc.Coordinates[CHOOSE k \in 1..Len(loc.Coordinates) : IsSelected(loc, k)]

\* the mean of the vertices of a closed ring, the closing point left out
VertexMean(ring) ==
    [x |-> SumOf(SubSeq(ring, 1, Len(ring) - 1), 1),
     y |-> SumOf(SubSeq(ring, 1, Len(ring) - 1), 2),
     d |-> Len(ring) - 1]

SamePoint(p, q) == p.x * q.d = q.x * p.d /\ p.y * q.d = q.y * p.d

\* C22: when the barycenter of the vertices of the outer ring of the selected
\* polygon (the closing point left out) lies inside that polygon,
\* computeCentroid returns that barycenter and no error; the unit square
\* gives (0.5, 0.5).
C22_BarycenterReturned ==
    /\ (gout.done /\ HasSelected(gin)
           /\ PolygonContains(Selected(gin), VertexMean(Selected(gin)[1])))
          => /\ gout.res.found /\ gout.res.err = "nil" /\ ~gout.res.panic
             /\ SamePoint(gout.res.c, VertexMean(Selected(gin)[1]))
    /\ (gout.done /\ gin.Type = "multipolygon" /\ gin.Coordinates = <<UnitSquare>>)
          => /\ gout.res.found /\ gout.res.err = "nil"
             /\ SamePoint(gout.res.c, [x |-> 1, y |-> 1, d |-> 2])

\* the horseshoe of the test after the unit square: the larger one is
\* selected and its barycenter (2.125, 1.125) is returned
C22_Witness ==
    /\ gout.done /\ gin.Type = "multipolygon"
    /\ gin.Coordinates = <<UnitSquare, Horseshoe>>
    /\ gout.res.found /\ gout.res.c = [x |-> 17, y |-> 9, d |-> 8]

\* the point of the second attempt for the selected polygon
EarPoint(loc) == computeSimplePolygonCentroid(Tail(Selected(loc)[1]))

CentroidErrors ==
    {"unsupported location type", "invalid empty polygon", "cannot find convex vertex",
     "geos"}

\* C23: that no centroid was found is a value and not an error. When neither
\* the barycenter nor the point of the ear construction lies inside the
\* selected polygon, computeCentroid returns (nil, nil); an error is returned
\* only for a location type that is not supported, an empty polygon, a ring
\* without convex vertex or a failure of geos; and a centroid that is
\* returned lies inside the selected polygon.
C23_NoCentroidIsValue ==
    gout.done =>
        /\ (HasSelected(gin)
               /\ ~PolygonContains(Selected(gin), VertexMean(Selected(gin)[1]))
               /\ EarPoint(gin).err = "nil"
               /\ ~PolygonContains(Selected(gin), EarPoint(gin).c))
              => (~gout.res.found /\ gout.res.err = "nil" /\ ~gout.res.panic)
        /\ gout.res.err # "nil" =>
              /\ ~gout.res.found
              /\ gout.res.err \in CentroidErrors
              /\ gout.res.err = "unsupported location type" => gin.Type # "multipolygon"
              /\ gout.res.err = "geos" => ~WellFormed(gin)
              /\ gout.res.err = "invalid empty polygon" =>
                    \E k \in 1..Len(gin.Coordinates) : gin.Coordinates[k] = <<>>
              /\ gout.res.err = "cannot find convex vertex" =>
                    /\ HasSelected(gin)
                    /\ findConvexVertex(Tail(Selected(gin)[1])) < 0
        /\ gout.res.found =>
              /\ HasSelected(gin)
              /\ PolygonContains(Selected(gin), gout.res.c)

\* the square with the hole of the test: no centroid, no error
C23_Witness ==
    /\ gout.done /\ gin.Type = "multipolygon" /\ gin.Coordinates = <<HoledSquare>>
    /\ ~gout.res.found /\ gout.res.err = "nil" /\ ~gout.res.panic


-----------------------------------------------------------------------------
(* The indexlocations pipeline of locationsFn (src/main.go): the main       *)
(* goroutine reads the relations and sends them on pendings, the workers    *)
(* run buildLocation and send on results, one goroutine closes results when *)
(* the workers are gone, one receives the results and closes done. The      *)
(* channels have no buffer: a send and its receive are one step.            *)
(* gin is the run: the number of workers, what each relation that is to be  *)
(* submitted meets ("ok": a location, "none": no location, "fail": an error *)
(* of buildLocation, "dberr": an error of db.HasLocation), and whether the  *)
(* reader ends with an error.                                               *)

MaxWorkers == 2

MaxRelations == 2

RelationFates == {"ok", "none", "fail", "dberr"}

Runs ==
    {[workers |-> n, items |-> items, readerErr |-> e] :
        n \in 0..MaxWorkers,
        items \in UNION {[1..k -> RelationFates] : k \in 0..MaxRelations},
        e \in BOOLEAN}

\* a worker between two requests, in range pendings
WorkerIdle == [state |-> "recv", rq |-> 0, err |-> FALSE, loc |-> FALSE]

InitPipe ==
    /\ gin \in Runs
    /\ gout = [pc |-> "read", idx |-> 1, ret |-> "none",
               pendingsClosed |-> FALSE, resultsClosed |-> FALSE, doneClosed |-> FALSE,
               running |-> gin.workers,
               worker |-> [w \in 1..gin.workers |-> WorkerIdle],
               submitted |-> {}, delivered |-> <<>>, seen |-> 0, converted |-> 0,
               consumer |-> "recv", exited |-> FALSE]
    /\ IdleExceptGeo

worker_built_dropping(fate, rq) ==
    IF fate = "fail" THEN WorkerIdle
    ELSE [state |-> "send", rq |-> rq, err |-> FALSE, loc |-> fate = "ok"]

\* the worker after buildLocation: the request with its Err or its Location,
\* to be sent on results
worker_built(fate, rq) ==
    [state |-> "send", rq |-> rq, err |-> fate = "fail", loc |-> fate = "ok"]

\* r.Next() gave a relation to submit: db.HasLocation fails and locationsFn
\* returns its error, or the request is made and main waits to send it
MainNext ==
    /\ ~gout.exited /\ gout.pc = "read" /\ gout.idx <= Len(gin.items)
    /\ gout' = IF gin.items[gout.idx] = "dberr"
               THEN [gout EXCEPT !.pc = "returned", !.ret = "db"]
               ELSE [gout EXCEPT !.pc = "send"]
    /\ UNCHANGED <<gin, exceptGeo>>

\* pendings <- rq, taken by a worker in range pendings
MainSubmit ==
    /\ ~gout.exited /\ gout.pc = "send"
    /\ \E w \in DOMAIN gout.worker :
          /\ gout.worker[w].state = "recv"
          /\ gout' = [gout EXCEPT !.pc = "read", !.idx = @ + 1,
                                  !.submitted = @ \cup {gout.idx},
                                  !.worker[w] = [WorkerIdle EXCEPT !.state = "build",
                                                                   !.rq = gout.idx]]
    /\ UNCHANGED <<gin, exceptGeo>>

\* r.Next() gave false: close(pendings), then return r.Err() or wait for done
MainClose ==
    /\ ~gout.exited /\ gout.pc = "read" /\ gout.idx > Len(gin.items)
    /\ gout' = IF gin.readerErr
               THEN [gout EXCEPT !.pendingsClosed = TRUE, !.pc = "returned",
                                 !.ret = "reader"]
               ELSE [gout EXCEPT !.pendingsClosed = TRUE, !.pc = "wait"]
    /\ UNCHANGED <<gin, exceptGeo>>

\* <-done, and return nil
MainReturn ==
    /\ ~gout.exited /\ gout.pc = "wait" /\ gout.doneClosed
    /\ gout' = [gout EXCEPT !.pc = "returned", !.ret = "nil"]
    /\ UNCHANGED <<gin, exceptGeo>>

\* loc, err := buildLocation(rq.Relation, db)
WorkerBuild ==
    /\ ~gout.exited
    /\ \E w \in DOMAIN gout.worker :
          /\ gout.worker[w].state = "build"
          /\ gout' = [gout EXCEPT !.worker[w] =
                                      worker_built(gin.items[gout.worker[w].rq],
                                                   gout.worker[w].rq)]
    /\ UNCHANGED <<gin, exceptGeo>>

\* results <- rq, taken by the receiving goroutine, which counts it
WorkerDeliver ==
    /\ ~gout.exited /\ gout.consumer = "recv"
    /\ \E w \in DOMAIN gout.worker :
          /\ gout.worker[w].state = "send"
          /\ gout' = [gout EXCEPT
                        !.worker[w] = WorkerIdle,
                        !.delivered = Append(@, [rq  |-> gout.worker[w].rq,
                                                 err |-> gout.worker[w].err]),
                        !.seen = @ + 1,
                        !.converted = IF gout.worker[w].err \/ ~gout.worker[w].loc
                                      THEN @ ELSE @ + 1]
    /\ UNCHANGED <<gin, exceptGeo>>

\* a worker that leaves its loop without running.Done()
WorkerExit_withoutDone ==
    /\ ~gout.exited /\ gout.pendingsClosed
    /\ \E w \in DOMAIN gout.worker :
          /\ gout.worker[w].state = "recv"
          /\ gout' = [gout EXCEPT !.worker[w].state = "exited"]
    /\ UNCHANGED <<gin, exceptGeo>>

\* range pendings ends on the closed channel; running.Done()
WorkerExit ==
    /\ ~gout.exited /\ gout.pendingsClosed
    /\ \E w \in DOMAIN gout.worker :
          /\ gout.worker[w].state = "recv"
          /\ gout' = [gout EXCEPT !.worker[w].state = "exited", !.running = @ - 1]
    /\ UNCHANGED <<gin, exceptGeo>>

\* running.Wait(); close(results)
WaiterClose ==
    /\ ~gout.exited /\ gout.running = 0 /\ ~gout.resultsClosed
    /\ gout' = [gout EXCEPT !.resultsClosed = TRUE]
    /\ UNCHANGED <<gin, exceptGeo>>

\* range results ends on the closed channel; close(done)
ConsumerClose ==
    /\ ~gout.exited /\ gout.consumer = "recv" /\ gout.resultsClosed
    /\ gout' = [gout EXCEPT !.consumer = "exited", !.doneClosed = TRUE]
    /\ UNCHANGED <<gin, exceptGeo>>

\* main() ends the process once locationsFn has returned
ProcessExit ==
    /\ ~gout.exited /\ gout.pc = "returned"
    /\ gout' = [gout EXCEPT !.exited = TRUE]
    /\ UNCHANGED <<gin, exceptGeo>>

NextPipe ==
    \/ MainNext \/ MainSubmit \/ MainClose \/ MainReturn
    \/ WorkerBuild \/ WorkerDeliver \/ WorkerExit
    \/ WaiterClose \/ ConsumerClose \/ ProcessExit

\* every goroutine that can run does run
SpecPipe == InitPipe /\ [][NextPipe]_vars /\ WF_vars(NextPipe)

Delivered == {gout.delivered[k].rq : k \in DOMAIN gout.delivered}

\* C24: a relation whose buildLocation fails never aborts the run. Whatever
\* the relations submitted and whichever of them fail in buildLocation: no
\* request reaches the receiving goroutine twice, and none that was not
\* submitted; a failed one arrives with its error like any other; what
\* locationsFn returns is never the error of a relation; when it returns nil
\* every submitted request has been received; and every submitted request is
\* received in the end, unless locationsFn returned the error of the reader or
\* of the database first.
C24_FailureDoesNotAbort ==
    /\ [](/\ \A k, m \in DOMAIN gout.delivered :
                gout.delivered[k].rq = gout.delivered[m].rq => k = m
          /\ Delivered \subseteq gout.submitted
          /\ \A k \in DOMAIN gout.delivered :
                gout.delivered[k].err <=> gin.items[gout.delivered[k].rq] = "fail"
          /\ gout.seen = Len(gout.delivered)
          /\ gout.ret = "db" => \E k \in DOMAIN gin.items : gin.items[k] = "dberr"
          /\ gout.ret = "reader" => gin.readerErr
          /\ gout.ret = "nil" =>
                (Delivered = gout.submitted /\ gout.submitted = DOMAIN gin.items))
    /\ \A k \in 1..MaxRelations :
          (k \in gout.submitted) ~> (k \in Delivered \/ gout.ret \in {"db", "reader"})

\* two relations, the first failing: both were received, the failed one
\* first, and locationsFn returned nil
C24_Witness ==
    /\ gout.ret = "nil" /\ gin.items = <<"fail", "ok">>
    /\ Len(gout.delivered) = 2
    /\ gout.delivered[1] = [rq |-> 1, err |-> TRUE]
    /\ gout.delivered[2] = [rq |-> 2, err |-> FALSE]
    /\ gout.converted = 1

\* the pipeline at rest: every worker has left range pendings, results and
\* done are closed, the receiving goroutine is gone
PipelineDrained ==
    /\ \A w \in DOMAIN gout.worker : gout.worker[w].state = "exited"
    /\ gout.running = 0 /\ gout.resultsClosed
    /\ gout.consumer = "exited" /\ gout.doneClosed

\* C36: with at least one worker and a reader that ends without error the
\* pipeline terminates. locationsFn returns in every such run; once pendings
\* is closed every worker leaves its loop, results is closed, the receiving
\* goroutine closes done and locationsFn returns nil; and when it has returned
\* nil no goroutine is left waiting on a channel.
C36_PipelineTerminates ==
    /\ (gin.workers >= 1 /\ ~gin.readerErr) ~> (gout.pc = "returned")
    /\ (gin.workers >= 1 /\ ~gin.readerErr /\ gout.pendingsClosed)
          ~> (PipelineDrained /\ gout.ret = "nil")
    /\ [](gout.ret = "nil" => PipelineDrained)

\* two workers and two relations: both workers sent a result, pendings was
\* closed behind them, and the run came to rest with nil
C36_Witness ==
    /\ gin.workers = 2 /\ ~gin.readerErr /\ Len(gin.items) = 2
    /\ gout.ret = "nil" /\ PipelineDrained /\ gout.seen = 2 /\ gout.exited

\* C37: locationsFn never returns while a request handed to a worker is
\* unprocessed: whenever it has returned, pendings is closed and every
\* submitted request has been received by the goroutine that counts them.
C37_ReturnsAfterDrain ==
    gout.pc = "returned" =>
        /\ gout.pendingsClosed
        /\ Delivered = gout.submitted

\* a call of makeRing that returned nil
ReturnedNil(c) == ~c.ok /\ ~c.panic

\* call d was made by call c, for a line that Push had to turn
PushedTurned(c, d) ==
    /\ Len(d.parts.parts) = Len(c.parts.parts) + 1
    /\ SubSeq(d.parts.parts, 1, Len(c.parts.parts)) = c.parts.parts
    /\ d.parts.start = c.parts.start
    /\ \E k \in 1..Len(c.lines) :
          /\ c.lines[k].Id = d.parts.parts[Len(d.parts.parts)].Id
          /\ c.lines[k].Points # d.parts.parts[Len(d.parts.parts)].Points

\* C31: backtracking leaves no trace. Every call of makeRing that returns nil
\* leaves the ids marked in seen and its RingParts (parts, start, end) as they
\* were when it was entered, and no call of makeRing, whatever it returns,
\* changes a line: every call is entered with the arcs mergeArcs kept and
\* leaves them as they are.
C31_BacktrackLeavesNoTrace ==
    gout.done =>
        \A c \in gout.res.log :
            /\ ReturnedNil(c) => (c.seenOut = c.seen /\ c.partsOut = c.parts)
            /\ ~c.panic => (c.lines = gout.res.arcs /\ c.linesOut = c.lines)

\* a call returned nil after a call made under it, for a line pushed against
\* its direction, had returned nil too
C31_Witness ==
    /\ gout.done
    /\ \E c, d \in gout.res.log :
          /\ ReturnedNil(c) /\ ReturnedNil(d) /\ PushedTurned(c, d)
          /\ Len(c.parts.parts) >= 2

\* the points of the lines ks of lines put end to end, those of fl turned,
\* or <<>> when two of them do not meet
RECURSIVE ChainPoints(_, _, _, _)
ChainPoints(lines, ks, fl, acc) ==
    IF ks = <<>> THEN acc
    ELSE IF (IF Head(ks) \in fl THEN End(lines[Head(ks)]) ELSE Start(lines[Head(ks)]))
                # acc[Len(acc)]
    THEN <<>>
    ELSE ChainPoints(lines, Tail(ks), fl,
                     acc \o Tail(IF Head(ks) \in fl
                                 THEN ReversePoints(lines[Head(ks)].Points)
                                 ELSE lines[Head(ks)].Points))

\* the lines not yet marked in seen
Unconsumed(lines, seen) == {k \in 1..Len(lines) : lines[k].Id \notin seen}

\* some distinct lines not yet consumed continue line, end to end and each in
\* one of its directions, back to its start as a valid simple ring
CanClose(lines, line, seen) ==
    \E S \in SUBSET Unconsumed(lines, seen) : \E ks \in Orderings(S) : \E fl \in SUBSET S :
        isValidRing([Id |-> 0, Role |-> <<>>,
                     Points |-> ChainPoints(lines, ks, fl, line.Points)])

\* the calls of makeRing made by makeRings itself
TopCalls == {c \in gout.res.log : Len(c.parts.parts) = 1}

Degree(lines, p) == Len(mergeArcs_indices(lines, p))

\* the points an arc passes between its ends
Interior(arc) == {arc.Points[i] : i \in 2..(Len(arc.Points) - 1)}

\* the arcs of lines that start or end at p
ArcsAt(lines, p) == {k \in 1..Len(lines) : Start(lines[k]) = p \/ End(lines[k]) = p}

\* the lists of points of the arcs, each whatever its direction
UpToDirection(arcs) ==
    {{arcs[k].Points, ReversePoints(arcs[k].Points)} : k \in 1..Len(arcs)}

Merged == gout.done /\ ~gout.res.panic

\* C33: arc merging is maximal and respects branch points. No arc returned
\* passes through a point where more or less than two of the lines end, and
\* at no point do exactly two ends of two different arcs returned meet.
C33_MergeAtPairsOnly ==
    Merged =>
        /\ \A p \in EndPointKeys(gin.lines) :
              Degree(gin.lines, p) # 2 =>
                  \A a \in 1..Len(gout.res.arcs) : p \notin Interior(gout.res.arcs[a])
        /\ \A p \in EndPointKeys(gout.res.arcs) :
              ~(Degree(gout.res.arcs, p) = 2 /\ Cardinality(ArcsAt(gout.res.arcs, p)) = 2)

-----------------------------------------------------------------------------
(* mergeArcs on its own: the lines of a drawing, among them lines of a      *)
(* single point, in any order and direction, the map ranged in any order.   *)

InitMerge ==
    /\ \E d \in Drawings \cup {Dot, Dots} : \E lines \in Arrangements(d) :
          gin = [drawing |-> d, lines |-> lines]
    /\ gout = [done |-> FALSE, order |-> <<>>, res |-> [kept |-> <<>>, panic |-> FALSE]]
    /\ IdleExceptGeo

\* lines = mergeArcs(lines)
MergeArcsCall ==
    /\ ~gout.done
    /\ \E order \in MapOrders(gin.lines) :
          gout' = [done |-> TRUE, order |-> order, res |-> mergeArcs(gin.lines, order)]
    /\ UNCHANGED <<gin, exceptGeo>>

NextMerge == MergeArcsCall

SpecMerge == InitMerge /\ [][NextMerge]_vars

\* C38: mergeArcs never reaches the panic of mergeLines, whatever the lines
\* (each of one point at least) and in whatever order the points are visited:
\* the two arcs it hands to mergeLines have an end in common, and the arcs
\* returned have the segments of the lines, each as often as the lines have.
C38_MergeNeverPanics ==
    gout.done =>
        /\ ~gout.res.panic
        /\ AllSegments(gout.res.kept) = AllSegments(gin.lines)
        /\ SegmentCount(gout.res.kept) = SegmentCount(gin.lines)

\* the chain of two lines became one arc, the second line having been turned;
\* the line of one point at its end was left alone
C38_Witness ==
    /\ gout.done /\ gin.drawing = Dots
    /\ gin.lines[1].Points = <<<<2, 0>>, <<1, 0>>>>
    /\ gin.lines[2].Points = <<<<0, 0>>>>
    /\ gin.lines[3].Points = <<<<1, 0>>, <<0, 0>>>>
    /\ Len(gout.res.kept) = 2
    /\ gout.res.kept[1].Points = <<<<2, 0>>, <<1, 0>>, <<0, 0>>>>
    /\ gout.res.kept[2].Points = <<<<0, 0>>>>

-----------------------------------------------------------------------------
(* makeRings on lines that have a role: the Role that collectWayGeometries  *)
(* gives a way is the role of its reference, in lower case.                 *)

\* "outer" and "inner"
OuterRole == <<111, 117, 116, 101, 114>>

InnerRole == <<105, 110, 110, 101, 114>>

RingRoles == {<<>>, OuterRole, InnerRole}

RoleDrawings == {SquareThree, SquareTwo, Theta}

WithRoles(lines, roles) == [k \in 1..Len(lines) |-> [lines[k] EXCEPT !.Role = roles[k]]]

InitRoles ==
    /\ \E d \in RoleDrawings : \E lines \in Arrangements(d) :
          \E roles \in [1..Len(d) -> RingRoles] :
              gin = [drawing |-> d, lines |-> WithRoles(lines, roles)]
    /\ gout = NoRings
    /\ IdleExceptGeo

SpecRoles == InitRoles /\ [][NextRings]_vars

\* the lines a ring was assembled from: those whose segments it has
Fragments(ring) ==
    {k \in 1..Len(gin.lines) : Segments(gin.lines[k].Points) \subseteq Segments(ring.Points)}

\* the role the lines have in common, or the empty one
CommonRole(ks) ==
    IF \E role \in RingRoles : \A k \in ks : gin.lines[k].Role = role
    THEN gin.lines[CHOOSE k \in ks : TRUE].Role
    ELSE <<>>

\* C34: the Role of every ring makeRings returns is the Role its lines have
\* in common if they all have the same, and empty if not, whether the lines
\* were joined by mergeArcs or by makeRing.
C34_RingRoleIsCommonRole ==
    Succeeded =>
        \A r \in 1..Len(gout.res.rings) :
            gout.res.rings[r].Role = CommonRole(Fragments(gout.res.rings[r]))

-----------------------------------------------------------------------------
(* polygonsToJson (src/geojson.go): the polygons geos made become the       *)
(* Location that is stored and that computeCentroid reads later. A geos     *)
(* geometry is its type and its rings, the shell first; coordinates are     *)
(* kept as the whole numbers they are multiples of.                         *)

RECURSIVE isClockwise_loop(_, _, _)
isClockwise_loop(ring, i, area) ==
    IF i > Len(ring) THEN area
    ELSE isClockwise_loop(ring, i + 1,
             area + (ring[i][1] - ring[i - 1][1]) * (ring[i][2] + ring[i - 1][2]))

\* the area after the loop and after the side from the last point to the first
isClockwise_area(ring) ==
    isClockwise_loop(ring, 2, 0)
        + (ring[1][1] - ring[Len(ring)][1]) * (ring[1][2] + ring[Len(ring)][2])

isClockwise(ring) == IF Len(ring) < 3 THEN FALSE ELSE isClockwise_area(ring) > 0

reverseJsonRing(ring) == ReversePoints(ring)

\* the shell as it is stored
polygonsToJson_shell(inner) == IF isClockwise(inner) THEN reverseJsonRing(inner) ELSE inner

\* a hole as it is stored
polygonsToJson_hole(outer) == IF ~isClockwise(outer) THEN reverseJsonRing(outer) ELSE outer

polygonsToJson_rings(g) ==
    [k \in 1..Len(g.rings) |->
        IF k = 1 THEN polygonsToJson_shell(g.rings[1]) ELSE polygonsToJson_hole(g.rings[k])]

NoLocation == [Type |-> "multipolygon", Coordinates |-> <<>>]

\* the loop over the polygons; onEmpty is the error an empty polygon ends in,
\* which depends on what geos counts in it
RECURSIVE polygonsToJson_loop(_, _, _)
polygonsToJson_loop(polygons, shapes, onEmpty) ==
    IF polygons = <<>>
    THEN [isNil |-> FALSE, loc |-> [Type |-> "multipolygon", Coordinates |-> shapes],
          err |-> "nil"]
    ELSE IF Head(polygons).type # "polygon"
    THEN [isNil |-> TRUE, loc |-> NoLocation, err |-> "cannot handle geometry type"]
    ELSE IF Head(polygons).rings = <<>> \/ Head(polygons).rings[1] = <<>>
    THEN [isNil |-> TRUE, loc |-> NoLocation, err |-> onEmpty]
    ELSE polygonsToJson_loop(Tail(polygons),
                             Append(shapes, polygonsToJson_rings(Head(polygons))), onEmpty)

polygonsToJson(polygons, onEmpty) == polygonsToJson_loop(polygons, <<>>, onEmpty)

\* a shape with every ring the other way round
Turned(shape) == [k \in 1..Len(shape) |-> ReversePoints(shape[k])]

\* a shell with a notch, whose barycenter is outside
Notched == << <<<<0, 0>>, <<0, 4>>, <<1, 4>>, <<1, 1>>, <<3, 1>>, <<3, 4>>, <<4, 4>>,
                <<4, 0>>, <<0, 0>>>> >>

\* what geos may hand over: polygons whose rings run either way, an empty
\* polygon, and a geometry that is no polygon
GeosPolygons ==
    {[type |-> "polygon", rings |-> s] :
        s \in {UnitSquare, HoledSquare, Dart, Arrowhead, Notched}}
    \cup {[type |-> "polygon", rings |-> Turned(s)] :
        s \in {UnitSquare, HoledSquare, Dart, Arrowhead, Notched}}
    \cup {[type |-> "polygon", rings |-> <<>>],
          [type |-> "multipolygon", rings |-> UnitSquare]}

NoOutcome == [done |-> FALSE, res |-> Outcome(NoCentroid, FALSE, "nil", FALSE)]

InitJson ==
    /\ gin \in UNION {[1..n -> GeosPolygons] : n \in 0..MaxPolygons}
    /\ gout = [done |-> FALSE, stored |-> polygonsToJson(<<>>, "nil"), centroid |-> NoOutcome]
    /\ IdleExceptGeo

\* loc, err := polygonsToJson(polygons)
PolygonsToJsonCall ==
    /\ ~gout.done
    /\ \E onEmpty \in {"empty geometry", "cannot extract inner ring"} :
          gout' = [gout EXCEPT !.done = TRUE, !.stored = polygonsToJson(gin, onEmpty)]
    /\ UNCHANGED <<gin, exceptGeo>>

\* computeCentroid on the location that was stored
StoredCentroidCall ==
    /\ gout.done /\ gout.stored.err = "nil" /\ ~gout.centroid.done
    /\ \E onNil \in {"panic", "error"} :
          gout' = [gout EXCEPT !.centroid =
                      [done |-> TRUE, res |-> computeCentroid(gout.stored.loc, onNil)]]
    /\ UNCHANGED <<gin, exceptGeo>>

NextJson == PolygonsToJsonCall \/ StoredCentroidCall

SpecJson == InitJson /\ [][NextJson]_vars

\* the ring runs clockwise: the area it goes around, counted to the left, is
\* negative
RunsClockwise(ring) == Shoelace(ring) < 0

\* the ring turns at its vertex i (from 0) to the side on which its area lies
IsConvexAt(ring, i) ==
    Cross(ring[getNeighbourVertices(Len(ring), i).ai + 1], ring[i + 1],
          ring[getNeighbourVertices(Len(ring), i).bi + 1])
        * Shoelace(ring \o <<ring[1]>>) > 0

\* the outer rings of the stored location that computeCentroid hands to
\* computeSimplePolygonCentroid: that of the largest polygon, when its
\* barycenter is not inside
EarRings ==
    {gout.stored.loc.Coordinates[k][1] : k \in
        {k \in 1..Len(gout.stored.loc.Coordinates) :
            /\ IsSelected(gout.stored.loc, k)
            /\ ~PolygonContains(gout.stored.loc.Coordinates[k],
                                computeBarycenter(Tail(gout.stored.loc.Coordinates[k][1])))}}

\* C40: every outer ring polygonsToJson stores runs clockwise, as
\* findConvexVertex assumes, and in every outer ring that computeCentroid
\* hands to the ear construction the vertex findConvexVertex selects is a
\* convex vertex of the ring.
C40_OuterRingsClockwise ==
    (gout.done /\ gout.stored.err = "nil") =>
        /\ \A k \in 1..Len(gout.stored.loc.Coordinates) :
              RunsClockwise(gout.stored.loc.Coordinates[k][1])
        /\ \A ring \in EarRings :
              /\ findConvexVertex(Tail(ring)) >= 0
              /\ IsConvexAt(Tail(ring), findConvexVertex(Tail(ring)))

-----------------------------------------------------------------------------
(* NodePoints.FindPoint (src/geojson.go): the nodes collected by            *)
(* buildNodeArray, which refuses a list whose ids do not grow strictly.     *)

MaxNodeId == 5

\* sort.Search: the smallest index in i..j (from 0) at which the Id is id or
\* more, by halving
RECURSIVE Search(_, _, _, _)
Search(points, id, i, j) ==
    IF i >= j THEN i
    ELSE IF ~(points[((i + j) \div 2) + 1].Id >= id)
    THEN Search(points, id, ((i + j) \div 2) + 1, j)
    ELSE Search(points, id, i, (i + j) \div 2)

NoNodePoint == [Id |-> 0, Point |-> <<0, 0>>]

\* what FindPoint returns for the index sort.Search gave
FindPoint_at(points, id, i) ==
    IF i = Len(points) THEN [point |-> NoNodePoint, err |-> "cannot resolve node"]
    ELSE [point |-> points[i + 1], err |-> "nil"]

FindPoint(points, id) == FindPoint_at(points, id, Search(points, id, 0, Len(points)))

\* the nodes of the ids S, by growing id
RECURSIVE SortedPoints(_)
SortedPoints(S) ==
    IF S = {} THEN <<>>
    ELSE SortedPoints(S \ {CHOOSE m \in S : \A x \in S : x <= m})
            \o <<[Id    |-> CHOOSE m \in S : \A x \in S : x <= m,
                  Point |-> <<10 * (CHOOSE m \in S : \A x \in S : x <= m), 7>>]>>

InitFind ==
    /\ \E S \in SUBSET (1..MaxNodeId) : \E id \in 0..(MaxNodeId + 1) :
          gin = [points |-> SortedPoints(S), id |-> id]
    /\ gout = [done |-> FALSE, res |-> [point |-> NoNodePoint, err |-> "nil"]]
    /\ IdleExceptGeo

\* p, err := nodes.FindPoint(n)
FindPointCall ==
    /\ ~gout.done
    /\ gout' = [done |-> TRUE, res |-> FindPoint(gin.points, gin.id)]
    /\ UNCHANGED <<gin, exceptGeo>>

NextFind == FindPointCall

SpecFind == InitFind /\ [][NextFind]_vars

HasNode(points, id) == \E k \in 1..Len(points) : points[k].Id = id

\* C39: on nodes sorted by strictly growing Id, FindPoint(id) returns the
\* node whose Id is id when there is one and the error "cannot resolve node"
\* when there is none; it never returns another node.
C39_FindPointExact ==
    gout.done =>
        /\ HasNode(gin.points, gin.id) =>
              (gout.res.err = "nil" /\ gout.res.point.Id = gin.id
               /\ \E k \in 1..Len(gin.points) : gin.points[k] = gout.res.point)
        /\ ~HasNode(gin.points, gin.id) => gout.res.err = "cannot resolve node"
        /\ gout.res.err = "nil" => gout.res.point.Id = gin.id

-----------------------------------------------------------------------------
(* buildGeometry and buildLocation (src/geojson.go), on relations whose     *)
(* rings are rectangles along the axes, so that the polygon geos makes of a *)
(* ring is the rectangle of the inclusion trees. A relation is given by     *)
(* what ignoreRelation says of it, by the lines collectWayGeometries makes  *)
(* of its ways, each with the role of its reference, and by what            *)
(* db.PutLocation answers.                                                  *)

\* "admin_centre" and "label"
AdminCentreRole == <<97, 100, 109, 105, 110, 95, 99, 101, 110, 116, 114, 101>>

LabelRole == <<108, 97, 98, 101, 108>>

IgnoredRingRoles == {AdminCentreRole}

\* the test of the first loop of buildGeometry
IsRingRole(role) == role \in {InnerRole, OuterRole, <<>>} \/ role \in IgnoredRingRoles

Least(S) == CHOOSE m \in S : \A x \in S : m <= x

Greatest(S) == CHOOSE m \in S : \A x \in S : x <= m

\* createGeosSimplePolygon for a ring that goes around a rectangle
createGeosSimplePolygon(ring) ==
    <<Least({ring.Points[i][1] : i \in 1..Len(ring.Points)}),
      Least({ring.Points[i][2] : i \in 1..Len(ring.Points)}),
      Greatest({ring.Points[i][1] : i \in 1..Len(ring.Points)}),
      Greatest({ring.Points[i][2] : i \in 1..Len(ring.Points)})>>

\* the ring geos gives for a rectangle
BoxRing(b) == <<<<b[1], b[2]>>, <<b[1], b[4]>>, <<b[3], b[4]>>, <<b[3], b[2]>>, <<b[1], b[2]>>>>

\* createGeosPolygon: outer less the inner rectangles, which lie inside it
\* and apart from each other
createGeosPolygon(geoms, p) ==
    [type  |-> "polygon",
     rings |-> <<BoxRing(geoms[p.outer + 1])>>
                   \o [k \in 1..Len(p.inners) |-> BoxRing(geoms[p.inners[k] + 1])]]

RECURSIVE treesToPolygons_loop(_, _, _)
treesToPolygons_loop(g, roots, polygons) ==
    IF roots = <<>> THEN polygons
    ELSE treesToPolygons_loop(g, treesToPolygons_turn(g, roots, polygons).roots,
                              treesToPolygons_turn(g, roots, polygons).polygons)

makePolygons_trees(geoms, trees) ==
    IF trees.err # "nil" THEN [polygons |-> <<>>, err |-> trees.err, panic |-> FALSE]
    ELSE [polygons |-> [k \in 1..Len(treesToPolygons_loop(trees.g, trees.roots, <<>>)) |->
                           createGeosPolygon(geoms,
                               treesToPolygons_loop(trees.g, trees.roots, <<>>)[k])],
          err |-> "nil", panic |-> FALSE]

makePolygons_geoms(geoms) == makePolygons_trees(geoms, makeInclusionTrees(geoms))

makePolygons(rings) ==
    makePolygons_geoms([k \in 1..Len(rings) |-> createGeosSimplePolygon(rings[k])])

buildGeometry_rings(all) ==
    IF all.panic THEN [polygons |-> <<>>, err |-> "nil", panic |-> TRUE]
    ELSE IF all.err # "nil" THEN [polygons |-> <<>>, err |-> all.err, panic |-> FALSE]
    ELSE makePolygons(all.rings)

buildGeometry(rings, order) ==
    IF \E k \in 1..Len(rings) : ~IsRingRole(rings[k].Role)
    THEN [polygons |-> <<>>, err |-> "unsupported ring role", panic |-> FALSE]
    ELSE buildGeometry_rings(makeRings(rings, order))

\* what buildLocation returns: isNil is loc == nil
NoBuilt(err, panic) == [isNil |-> TRUE, loc |-> NoLocation, err |-> err, panic |-> panic]

buildLocation_stored(rel, js) ==
    IF js.err # "nil" THEN NoBuilt(js.err, FALSE)
    ELSE IF js.isNil THEN NoBuilt("nil", FALSE)
    ELSE [isNil |-> FALSE, loc |-> js.loc,
          err |-> IF rel.putErr THEN "db" ELSE "nil", panic |-> FALSE]

buildLocation_polygons(rel, built, onEmpty) ==
    IF built.panic THEN NoBuilt("nil", TRUE)
    ELSE IF built.err # "nil" THEN NoBuilt(built.err, FALSE)
    ELSE buildLocation_stored(rel, polygonsToJson(built.polygons, onEmpty))

buildLocation(rel, order, onEmpty) ==
    IF rel.ignore = "yes" THEN NoBuilt("nil", FALSE)
    ELSE IF rel.ignore = "error" THEN NoBuilt("unknown boundary value", FALSE)
    ELSE buildLocation_polygons(rel, buildGeometry(rel.lines, order), onEmpty)

\* a square in one piece inside a square in two pieces
NestedSquares == << <<<<0, 0>>, <<3, 0>>, <<3, 3>>>>, <<<<3, 3>>, <<0, 3>>, <<0, 0>>>>,
                    <<<<1, 1>>, <<2, 1>>, <<2, 2>>, <<1, 2>>, <<1, 1>>>> >>

RelationDrawings == {SquareTwo, NestedSquares, OpenChain}

RelationRoles == {<<>>, OuterRole, InnerRole, AdminCentreRole, LabelRole}

\* the ways in the order of their ids, as collectWayRefs sorts them
InitLocation ==
    /\ \E d \in RelationDrawings : \E roles \in [1..Len(d) -> RelationRoles] :
          \E ignore \in {"no", "yes", "error"} : \E putErr \in BOOLEAN :
              gin = [drawing |-> d, ignore |-> ignore, putErr |-> putErr,
                     lines |-> WithRoles(Arranged(d, [k \in 1..Len(d) |-> k], {}), roles)]
    /\ gout = [done |-> FALSE, res |-> NoBuilt("nil", FALSE)]
    /\ IdleExceptGeo

\* loc, err := buildLocation(rq.Relation, db)
BuildLocationCall ==
    /\ ~gout.done
    /\ \E order \in MapOrders(gin.lines) :
          \E onEmpty \in {"empty geometry", "cannot extract inner ring"} :
              gout' = [done |-> TRUE, res |-> buildLocation(gin, order, onEmpty)]
    /\ UNCHANGED <<gin, exceptGeo>>

NextLocation == BuildLocationCall

SpecLocation == InitLocation /\ [][NextLocation]_vars

HasRoleMismatch(lines) == \E k \in 1..Len(lines) : ~IsRingRole(lines[k].Role)

\* C35: a way whose role is neither outer, inner, empty nor an ignored role
\* makes the building of the geometry of its relation end without a location
\* and without an error.
C35_RoleMismatchIsEmptyResult ==
    (gout.done /\ gin.ignore = "no" /\ HasRoleMismatch(gin.lines)) =>
        (gout.res.isNil /\ gout.res.err = "nil" /\ ~gout.res.panic)

=============================================================================
